---- MODULE Spec2Model ----
(***************************************************************************)
(* Model of the model registry (services/model_manager.py), the model      *)
(* adapters' load/predict life cycle (services/model_service.py) and the   *)
(* inference request handlers that call them (routes/*.py).                *)
(*                                                                         *)
(* The Flask server handles each request on its own thread, so the         *)
(* handlers of two requests interleave.  A handler is cut into steps at    *)
(* the places where it touches shared state (the registry's dictionary,    *)
(* an adapter's fields, the temporary file) or blocks on I/O.              *)
(***************************************************************************)
EXTENDS Integers, Sequences, FiniteSets, TLC

\* ---------------------------------------------------------------- bounds
NThreads == 2      \* request-handling threads
MaxReq   == 2      \* requests started in one behaviour; each constructs at
                   \* most one adapter and invokes load_model at most twice
MaxAdmin == 1      \* registry calls made outside the handlers in one behaviour

Threads == 1..NThreads

\* ------------------------------------------------- registry keys, families
\* model_key of each get_*_model method whose adapter class is defined in
\* model_service.py
Keys == {"amd_oct", "amd_fundus", "glaucoma", "dr", "dr_oct", "biomarker_Age"}

\* the adapter class each get_*_model method instantiates
AdapterClass(k) ==
    CASE k = "amd_oct"       -> "AMDOCTModel"
      [] k = "amd_fundus"    -> "AMDFundusModel"
      [] k = "glaucoma"      -> "GlaucomaFundusModel"
      [] k = "dr"            -> "DRFundusModel"
      [] k = "dr_oct"        -> "DROCTModel"
      [] k = "biomarker_Age" -> "BiomarkerModel"

\* the file name each get_*_model method joins to models_dir
ModelPath(k) ==
    CASE k = "amd_oct"       -> "best_f1.pt"
      [] k = "amd_fundus"    -> "AMD_Fundus_Binary_calssifier_Model_resnet50.pth"
      [] k = "glaucoma"      -> "best.keras"
      [] k = "dr"            -> "model_fold1_acc0.8734.pth"
      [] k = "dr_oct"        -> "my_model.h5"
      [] k = "biomarker_Age" -> "Age/mobilenetv3large_regressor_best.pth"

\* Does the class define the stand-in factory its load_model calls in the
\* except branch?  DROCTModel calls self._create_dummy_model() but neither
\* it nor BaseModel defines one.
HasDummyFactory(c) == c # "DROCTModel"

\* Is the body of predict wrapped in try/except returning a default result?
\* DROCTModel.predict has no try block.
PredictCatches(c) == c # "DROCTModel"

\* what the checkpoint file on disk can be when load_model reads it
Artifacts == {"ok", "missing", "corrupt"}

\* ------------------------------------------------------------------ state
VARIABLES
    loaded_models,  \* ModelManager.loaded_models: key -> instance id, 0 = absent
    insts,          \* every adapter constructed so far, by instance id
    th,             \* per handler thread: position and locals
    admin,          \* the registry call made outside the handlers, its result
    info,           \* last mapping returned by get_loaded_models_info
    nreq,           \* requests started
    nadmin,         \* registry calls made outside the handlers
    meta,           \* the DICOM metadata request in progress, step by step
    call            \* the last adapter or utility call: arguments and result

vars == <<loaded_models, insts, th, admin, info, nreq, nadmin, meta, call>>

\* BaseModel.__init__: model = None, is_loaded = False.  loads, getloads and
\* evicted are history: load_model invocations on the instance, those made by
\* a get_*_model method, and whether unload removed it from the registry.
NewAdapter(k) ==
    [key |-> k, cls |-> AdapterClass(k), model_path |-> ModelPath(k),
     device |-> "cpu", model |-> "none", is_loaded |-> FALSE,
     loads |-> 0, getloads |-> 0, evicted |-> FALSE]

IdleThread ==
    [pc |-> "idle", key |-> "none", hit |-> FALSE, inst |-> 0, cur |-> 0,
     from |-> "none",
     exc |-> "none", status |-> 0, result |-> "none", temp_exists |-> FALSE]

NoAdmin == [op |-> "none", key |-> "none", ret |-> "none"]

EmptyInfo == [k \in {} |-> 0]

NoMeta == [pc |-> "idle"]

NoCall == [op |-> "none"]

Init ==
    /\ loaded_models = [k \in Keys |-> 0]
    /\ insts = << >>
    /\ th = [t \in Threads |-> IdleThread]
    /\ admin = NoAdmin
    /\ info = EmptyInfo
    /\ nreq = 0
    /\ nadmin = 0
    /\ meta = NoMeta
    /\ call = NoCall

Built == 1..Len(insts)

\* ------------------------------------------------------- adapter methods
\* <Adapter>.load_model on an artifact in state art: the try branch sets the
\* real model and is_loaded; the except branch sets the stand-in from
\* _create_dummy_model and is_loaded.  Where the class has no such factory
\* the except branch itself raises (AttributeError) and the fields keep
\* their values.
load_model(a, art) ==
    IF art = "ok"
    THEN [adapter |-> [a EXCEPT !.model = "real", !.is_loaded = TRUE],
          raised  |-> FALSE]
    ELSE IF HasDummyFactory(a.cls)
    THEN [adapter |-> [a EXCEPT !.model = "dummy", !.is_loaded = TRUE],
          raised  |-> FALSE]
    ELSE [adapter |-> a, raised |-> TRUE]

\* the guard at the top of every predict: "if not self.is_loaded:
\* self.load_model()"
predict_must_load(a) == ~a.is_loaded

\* The forward pass and output decoding of predict, given whether they raise
\* (wrong tensor shape, unexpected output shape, model is None).  A class
\* with the try/except returns its default result, otherwise the exception
\* leaves predict.
predict_outcome(a, fault) ==
    IF a.model = "none" \/ fault
    THEN IF PredictCatches(a.cls) THEN "default" ELSE "raise"
    ELSE "normal"

\* ------------------------------------------------------ registry methods
\* unload_model clearing the whole dictionary instead of one key
unload_model_clears(k) ==
    IF loaded_models[k] # 0
    THEN [loaded_models |-> [j \in Keys |-> 0], ret |-> TRUE]
    ELSE [loaded_models |-> loaded_models, ret |-> FALSE]

\* ModelManager.unload_model
unload_model(k) ==
    IF loaded_models[k] # 0
    THEN [loaded_models |-> [loaded_models EXCEPT ![k] = 0], ret |-> TRUE]
    ELSE [loaded_models |-> loaded_models, ret |-> FALSE]

\* ModelManager.unload_all_models
unload_all_models == [k \in Keys |-> 0]

\* one entry of ModelManager.get_loaded_models_info
InfoOf(a) ==
    [model_type |-> a.cls, model_path |-> a.model_path,
     is_loaded |-> a.is_loaded, device |-> a.device]

\* ModelManager.get_loaded_models_info
get_loaded_models_info ==
    [k \in {j \in Keys : loaded_models[j] # 0} |-> InfoOf(insts[loaded_models[k]])]

\* get_*_model without the membership test
cache_miss_always(k) == TRUE

\* the "model_key not in self.loaded_models" test of every get_*_model
cache_miss(k) == loaded_models[k] = 0

\* ------------------------------------------------ request handler steps
Upd(t, r) == th' = [th EXCEPT ![t] = r]

\* handler t is at position p; a registry call made outside the handlers is
\* one step whose result its caller takes (AdminReturn) before anything else
\* runs
At(t, p) == th[t].pc = p /\ admin.op = "none"

\* leave the inner try block with an exception: finally, then the outer
\* except answers 500
Raise(t, what) ==
    Upd(t, [th[t] EXCEPT !.pc = "finally", !.exc = what, !.status = 500])

\* Request arrives on the route of key k.  The early returns (no file, empty
\* name, validate_file failure) answer 400 before any temporary file is
\* made; otherwise NamedTemporaryFile(delete=False) creates the file.  The
\* request is taken by the first free thread.
BeginRequest(t, k, valid) ==
    /\ At(t, "idle")
    /\ \A u \in Threads : u < t => th[u].pc # "idle"
    /\ nreq < MaxReq
    /\ nreq' = nreq + 1
    /\ IF valid
       THEN Upd(t, [IdleThread EXCEPT !.pc = "save", !.key = k,
                                      !.temp_exists = TRUE])
       ELSE Upd(t, [IdleThread EXCEPT !.pc = "resp", !.key = k, !.status = 400])
    /\ UNCHANGED <<loaded_models, insts, admin, info, nadmin, meta, call>>

\* file.save(temp_file.name) inside the with block.  The with block only
\* closes the file (delete=False); the try/finally that unlinks it starts
\* after the with block, so an exception here goes straight to the outer
\* except.
SaveUpload(t, ok) ==
    /\ At(t, "save")
    /\ IF ok
       THEN Upd(t, [th[t] EXCEPT !.pc = "process"])
       ELSE Upd(t, [th[t] EXCEPT !.pc = "resp", !.exc = "save", !.status = 500])
    /\ UNCHANGED <<loaded_models, insts, admin, info, nreq, nadmin, meta, call>>

\* decode the image (DICOM or raster) and run the preprocessing recipe
Process(t, ok) ==
    /\ At(t, "process")
    /\ IF ok
       THEN Upd(t, [th[t] EXCEPT !.pc = "get_check"])
       ELSE Raise(t, "decode")
    /\ UNCHANGED <<loaded_models, insts, admin, info, nreq, nadmin, meta, call>>

\* get_*_model: if model_key not in self.loaded_models
GetCheck(t) ==
    /\ At(t, "get_check")
    /\ IF cache_miss(th[t].key)
       THEN Upd(t, [th[t] EXCEPT !.pc = "get_store"])
       ELSE Upd(t, [th[t] EXCEPT !.pc = "get_return", !.hit = TRUE])
    /\ UNCHANGED <<loaded_models, insts, admin, info, nreq, nadmin, meta, call>>

\* get_*_model: self.loaded_models[model_key] = <Adapter>(model_path, device)
GetStore(t) ==
    /\ At(t, "get_store")
    /\ insts' = Append(insts, NewAdapter(th[t].key))
    /\ loaded_models' = [loaded_models EXCEPT ![th[t].key] = Len(insts) + 1]
    /\ Upd(t, [th[t] EXCEPT !.pc = "get_load"])
    /\ UNCHANGED <<admin, info, nreq, nadmin, meta, call>>

\* get_*_model: self.loaded_models[model_key].load_model() -- the dictionary
\* is read again (KeyError if the key was removed meanwhile) and load_model
\* starts on whatever instance is stored there now
GetLoad(t) ==
    /\ At(t, "get_load")
    /\ LET i == loaded_models[th[t].key] IN
       IF i = 0
       THEN Raise(t, "KeyError") /\ UNCHANGED insts
       ELSE /\ insts' = [insts EXCEPT ![i].loads = @ + 1, ![i].getloads = @ + 1]
            /\ Upd(t, [th[t] EXCEPT !.pc = "loading", !.cur = i, !.from = "get"])
    /\ UNCHANGED <<loaded_models, admin, info, nreq, nadmin, meta, call>>

\* load_model finishes on the instance th[t].cur, having found the artifact
\* in state art.  Called from get_*_model an exception leaves the handler's
\* try block; called from predict it is inside predict's own try where the
\* class has one.
LoadEnd(t, art) ==
    /\ At(t, "loading")
    /\ LET i == th[t].cur
           r == load_model(insts[i], art) IN
       /\ insts' = [insts EXCEPT ![i] = r.adapter]
       /\ IF ~r.raised
          THEN Upd(t, [th[t] EXCEPT !.pc = IF th[t].from = "get"
                                            THEN "get_return" ELSE "infer",
                                    !.cur = 0])
          ELSE IF th[t].from = "predict" /\ PredictCatches(insts[i].cls)
          THEN Upd(t, [th[t] EXCEPT !.pc = "log", !.result = "default", !.cur = 0])
          ELSE Upd(t, [th[t] EXCEPT !.pc = "finally", !.exc = "load_model",
                                    !.status = 500, !.cur = 0])
    /\ UNCHANGED <<loaded_models, admin, info, nreq, nadmin, meta, call>>

\* get_*_model: return self.loaded_models[model_key]
GetReturn(t) ==
    /\ At(t, "get_return")
    /\ IF loaded_models[th[t].key] = 0
       THEN Raise(t, "KeyError")
       ELSE Upd(t, [th[t] EXCEPT !.pc = "predict",
                                 !.inst = loaded_models[th[t].key]])
    /\ UNCHANGED <<loaded_models, insts, admin, info, nreq, nadmin, meta, call>>

\* <Adapter>.predict, entry: if not self.is_loaded: self.load_model()
PredictEntry(t) ==
    /\ At(t, "predict")
    /\ LET i == th[t].inst IN
       IF predict_must_load(insts[i])
       THEN /\ insts' = [insts EXCEPT ![i].loads = @ + 1]
            /\ Upd(t, [th[t] EXCEPT !.pc = "loading", !.cur = i,
                                     !.from = "predict", !.hit = FALSE])
       ELSE /\ Upd(t, [th[t] EXCEPT !.pc = "infer", !.hit = FALSE])
            /\ UNCHANGED insts
    /\ UNCHANGED <<loaded_models, admin, info, nreq, nadmin, meta, call>>

\* <Adapter>.predict, the rest: forward pass and decoding of the output
Infer(t, fault) ==
    /\ At(t, "infer")
    /\ LET o == predict_outcome(insts[th[t].inst], fault) IN
       IF o = "raise"
       THEN Raise(t, "predict")
       ELSE Upd(t, [th[t] EXCEPT !.pc = "log", !.result = o])
    /\ UNCHANGED <<loaded_models, insts, admin, info, nreq, nadmin, meta, call>>

\* log_inference / log_biomarker_prediction (re-raises a database error),
\* then the 200 response is built
LogAndRespond(t, dbok) ==
    /\ At(t, "log")
    /\ IF dbok
       THEN Upd(t, [th[t] EXCEPT !.pc = "finally", !.status = 200])
       ELSE Raise(t, "log")
    /\ UNCHANGED <<loaded_models, insts, admin, info, nreq, nadmin, meta, call>>

\* finally: if os.path.exists(temp_path): os.unlink(temp_path)
Finally(t) ==
    /\ At(t, "finally")
    /\ Upd(t, [th[t] EXCEPT !.pc = "resp", !.temp_exists = FALSE])
    /\ UNCHANGED <<loaded_models, insts, admin, info, nreq, nadmin, meta, call>>

\* the response has been sent; the thread takes the next request
Respond(t) ==
    /\ At(t, "resp")
    /\ Upd(t, IdleThread)
    /\ UNCHANGED <<loaded_models, insts, admin, info, nreq, nadmin, meta, call>>

\* ------------- registry calls made outside the handlers (each one step)
MarkEvicted(ks) ==
    [i \in DOMAIN insts |->
        IF insts[i].key \in ks /\ loaded_models[insts[i].key] = i
        THEN [insts[i] EXCEPT !.evicted = TRUE] ELSE insts[i]]

Unload(k) ==
    /\ admin.op = "none"
    /\ nadmin < MaxAdmin
    /\ nadmin' = nadmin + 1
    /\ LET r == unload_model(k) IN
       /\ loaded_models' = r.loaded_models
       /\ admin' = [op |-> "unload", key |-> k, ret |-> r.ret]
       /\ insts' = MarkEvicted({j \in Keys : loaded_models[j] # r.loaded_models[j]})
    /\ UNCHANGED <<th, info, nreq, meta, call>>

UnloadAll ==
    /\ admin.op = "none"
    /\ nadmin < MaxAdmin
    /\ nadmin' = nadmin + 1
    /\ loaded_models' = unload_all_models
    /\ admin' = [op |-> "unload_all", key |-> "none", ret |-> "none"]
    /\ insts' = MarkEvicted({j \in Keys : loaded_models[j] # unload_all_models[j]})
    /\ UNCHANGED <<th, info, nreq, meta, call>>

Describe ==
    /\ admin.op = "none"
    /\ nadmin < MaxAdmin
    /\ nadmin' = nadmin + 1
    /\ info' = get_loaded_models_info
    /\ admin' = [op |-> "describe", key |-> "none", ret |-> "none"]
    /\ UNCHANGED <<loaded_models, insts, th, nreq, meta, call>>

\* the caller of the registry call has its result
AdminReturn ==
    /\ admin.op # "none"
    /\ admin' = NoAdmin
    /\ info' = EmptyInfo
    /\ UNCHANGED <<loaded_models, insts, th, nreq, nadmin, meta, call>>

\* ------------------------------------------------------- specifications
\* handlers on concurrent threads
Next ==
    \/ \E t \in Threads, k \in Keys, valid \in BOOLEAN : BeginRequest(t, k, valid)
    \/ \E t \in Threads, ok \in BOOLEAN : SaveUpload(t, ok)
    \/ \E t \in Threads, ok \in BOOLEAN : Process(t, ok)
    \/ \E t \in Threads : GetCheck(t)
    \/ \E t \in Threads : GetStore(t)
    \/ \E t \in Threads : GetLoad(t)
    \/ \E t \in Threads, art \in Artifacts : LoadEnd(t, art)
    \/ \E t \in Threads : GetReturn(t)
    \/ \E t \in Threads : PredictEntry(t)
    \/ \E t \in Threads, fault \in BOOLEAN : Infer(t, fault)
    \/ \E t \in Threads, dbok \in BOOLEAN : LogAndRespond(t, dbok)
    \/ \E t \in Threads : Finally(t)
    \/ \E t \in Threads : Respond(t)
    \/ \E k \in Keys : Unload(k)
    \/ UnloadAll
    \/ Describe
    \/ AdminReturn

Spec == Init /\ [][Next]_vars

\* the same operations, one at a time: a request or registry call starts
\* only when no other is in progress
Alone(t) == \A u \in Threads \ {t} : th[u].pc = "idle"
Quiet == \A u \in Threads : th[u].pc = "idle"

NextSeq ==
    \/ \E t \in Threads, k \in Keys, valid \in BOOLEAN : Alone(t) /\ BeginRequest(t, k, valid)
    \/ \E t \in Threads, ok \in BOOLEAN : SaveUpload(t, ok)
    \/ \E t \in Threads, ok \in BOOLEAN : Process(t, ok)
    \/ \E t \in Threads : GetCheck(t)
    \/ \E t \in Threads : GetStore(t)
    \/ \E t \in Threads : GetLoad(t)
    \/ \E t \in Threads, art \in Artifacts : LoadEnd(t, art)
    \/ \E t \in Threads : GetReturn(t)
    \/ \E t \in Threads : PredictEntry(t)
    \/ \E t \in Threads, fault \in BOOLEAN : Infer(t, fault)
    \/ \E t \in Threads, dbok \in BOOLEAN : LogAndRespond(t, dbok)
    \/ \E t \in Threads : Finally(t)
    \/ \E t \in Threads : Respond(t)
    \/ \E k \in Keys : Quiet /\ Unload(k)
    \/ Quiet /\ UnloadAll
    \/ Quiet /\ Describe
    \/ AdminReturn

SpecSeq == Init /\ [][NextSeq]_vars

TypeOK ==
    /\ loaded_models \in [Keys -> 0..MaxReq]
    /\ Len(insts) <= MaxReq
    /\ nreq \in 0..MaxReq
    /\ \A t \in Threads : th[t].inst \in 0..Len(insts) /\ th[t].cur \in 0..Len(insts)

\* ------------------------------------------------------------ properties
\* the spec's load status of an adapter, read off the fields the code keeps
Status(a) ==
    IF ~a.is_loaded THEN "unloaded"
    ELSE IF a.model = "real" THEN "loaded" ELSE "load_failed_fallback"

\* instances of key k that no unload removed from the registry
Live(k) == {i \in Built : insts[i].key = k /\ ~insts[i].evicted}

\* C1: concurrent first requests for one identifier construct one adapter and
\* run one load, and both callers receive that instance: at no point are
\* there two live instances of one identifier.
C1_AtMostOneLiveInstance ==
    /\ \A k \in Keys : Cardinality(Live(k)) <= 1
    /\ \A i \in Built : insts[i].getloads <= 1
    /\ \A t, u \in Threads :
          (th[t].pc = "predict" /\ th[u].pc = "predict" /\ th[t].key = th[u].key
           /\ ~insts[th[t].inst].evicted /\ ~insts[th[u].inst].evicted)
          => th[t].inst = th[u].inst

\* C2: in a sequential run without unload in between, the first get_*_model
\* call for an identifier performs exactly one load and every later call
\* returns the same cached instance without loading again.
C2_SequentialGetLoadsOnce ==
    /\ \A k \in Keys : Cardinality(Live(k)) <= 1
    /\ \A i \in Built : insts[i].getloads <= 1
    /\ \A t \in Threads :
          th[t].pc = "predict" =>
              /\ th[t].inst = loaded_models[th[t].key]
              /\ Live(th[t].key) = {th[t].inst}
              /\ insts[th[t].inst].getloads = 1

C2_Witness ==
    \E t \in Threads :
        /\ th[t].pc = "predict" /\ th[t].hit
        /\ Live(th[t].key) = {th[t].inst}
        /\ insts[th[t].inst].getloads = 1

\* C3: no caller obtains from the registry an adapter whose status is still
\* unloaded.
C3_ReturnedAdapterHasLoaded ==
    \A t \in Threads :
        th[t].pc = "predict" => Status(insts[th[t].inst]) # "unloaded"

\* C4: load_model on a missing or corrupt artifact never raises past the
\* adapter: no handler sees an exception coming out of load_model.
C4_LoadNeverRaises ==
    \A t \in Threads : th[t].exc # "load_model"

\* C5: loading is never implicitly retried: load_model is invoked at most
\* once on an adapter instance.
C5_NoImplicitRetry ==
    \A i \in Built : insts[i].loads <= 1

\* C6: what get_loaded_models_info reports for an adapter serving the
\* fallback stand-in differs, in its status field, from what it reports for
\* an adapter with the real model.
C6_FallbackDistinguishable ==
    \A k, j \in DOMAIN get_loaded_models_info :
        (insts[loaded_models[k]].model = "real"
         /\ insts[loaded_models[j]].model = "dummy")
        => get_loaded_models_info[k].is_loaded # get_loaded_models_info[j].is_loaded

\* C7: an instance's status leaves unloaded once and then never changes; a
\* load attempt is made only on a freshly created instance, so a new attempt
\* for an identifier needs eviction and re-creation, after which get_*_model
\* returns a new instance loaded exactly once.
C7_StatusTerminalReloadOnlyByEviction ==
    /\ [][\A i \in Built :
            /\ Status(insts[i]) # "unloaded" => Status(insts'[i]) = Status(insts[i])
            /\ insts'[i].loads > insts[i].loads => insts[i].loads = 0]_vars
    /\ [](\A t \in Threads :
            th[t].pc = "predict" =>
                /\ ~insts[th[t].inst].evicted
                /\ insts[th[t].inst].getloads = 1)

\* C8: unload_model(k) returns True and removes exactly k's entry when k is
\* cached, returns False and changes nothing otherwise; no other entry and no
\* adapter is touched; unload_all_models leaves the dictionary empty, so that
\* get_loaded_models_info returns the empty mapping.
SameAdapters ==
    /\ Len(insts') = Len(insts)
    /\ \A i \in Built : [insts'[i] EXCEPT !.evicted = FALSE]
                        = [insts[i] EXCEPT !.evicted = FALSE]

C8_UnloadFrame ==
    [][nadmin' # nadmin =>
        /\ admin'.op = "unload" =>
            /\ admin'.ret = (loaded_models[admin'.key] # 0)
            /\ loaded_models'[admin'.key] = 0
            /\ \A j \in Keys \ {admin'.key} : loaded_models'[j] = loaded_models[j]
            /\ SameAdapters
        /\ admin'.op = "unload_all" =>
            /\ \A j \in Keys : loaded_models'[j] = 0
            /\ get_loaded_models_info' = EmptyInfo
            /\ SameAdapters]_vars

C8_Witness ==
    /\ admin.op = "unload" /\ admin.ret = TRUE
    /\ loaded_models[admin.key] = 0
    /\ \E j \in Keys : loaded_models[j] # 0

\* C9: predict fails soft for every adapter: an internal error during
\* inference never propagates out of predict.
C9_PredictNeverRaises ==
    \A t \in Threads : th[t].exc # "predict"

\* C10: the temporary file staging an upload is gone on every exit path of
\* the handler that created it.
C10_TempFileDeleted ==
    \A t \in Threads : th[t].pc = "resp" => ~th[t].temp_exists


\* ------------------------------------------- DICOM metadata: anonymization
\* values the PatientID tag (0010,0020) of an uploaded dataset can hold; ""
\* is what _safe_get_tag returns for an absent tag
PatientIds == {"", "12345", "PAT001", "ANON_c92ddc91"}

\* values of the PatientName tag (0010,0010)
PatientNames == {"", "DOE^JOHN"}

\* values of one tag that is not sensitive, Modality (0008,0060)
Modalities == {"OCT", "OP"}

\* upload names after secure_filename
FileNames == {"scan.dcm", "eye.dcm"}

Datasets == [PatientID : PatientIds, PatientName : PatientNames,
             Modality : Modalities]

\* hashlib.md5(s.encode()).hexdigest()[:8], tabulated from MD5 itself for
\* the strings above
Md5Hex8(s) ==
    CASE s = ""              -> "d41d8cd9"
      [] s = "12345"         -> "827ccb0e"
      [] s = "PAT001"        -> "23a63658"
      [] s = "ANON_c92ddc91" -> "c92ddc91"

\* DicomProcessor.extract_metadata: every key is always set, from the tag or
\* from the default ""
extract_metadata(ds) ==
    [patient_id |-> ds.PatientID, patient_name |-> ds.PatientName,
     modality |-> ds.Modality]

\* the handler's metadata['file_name'] = secure_filename(file.filename)
AddFileInfo(md, fname) ==
    [k \in DOMAIN md \cup {"file_name"} |->
        IF k = "file_name" THEN fname ELSE md[k]]

\* DicomProcessor.anonymize_metadata: a copy in which patient_name, when
\* present, is the sentinel and patient_id, when present, is "ANON_" and the
\* first 8 hex digits of the MD5 of the id
anonymize_metadata(metadata) ==
    [k \in DOMAIN metadata |->
        IF k = "patient_name" THEN "ANONYMOUS"
        ELSE IF k = "patient_id" THEN "ANON_" \o Md5Hex8(metadata[k])
        ELSE metadata[k]]

NoBody == [error |-> "none"]

\* POST /dicom/metadata, request received: validation
MetaBegin(ds, fname, valid) ==
    /\ meta.pc = "idle"
    /\ meta' = IF valid
               THEN [pc |-> "save", ds |-> ds, file_name |-> fname,
                     temp_exists |-> FALSE, status |-> 0, body |-> NoBody]
               ELSE [pc |-> "respond", ds |-> ds, file_name |-> fname,
                     temp_exists |-> FALSE, status |-> 400,
                     body |-> [error |-> "invalid file"]]
    /\ UNCHANGED <<loaded_models, insts, th, admin, info, nreq, nadmin, call>>

MetaFail(m) ==
    [m EXCEPT !.status = 500,
              !.body = [error |-> "Internal server error",
                        message |-> "Failed to extract DICOM metadata"]]

\* the temporary file is created, then file.save writes the upload into it;
\* a failure of save is outside the inner try and leaves the file behind
MetaSave(ok) ==
    /\ meta.pc = "save"
    /\ meta' = IF ok
               THEN [meta EXCEPT !.pc = "read", !.temp_exists = TRUE]
               ELSE [MetaFail(meta) EXCEPT !.pc = "respond",
                                           !.temp_exists = TRUE]
    /\ UNCHANGED <<loaded_models, insts, th, admin, info, nreq, nadmin, call>>

\* is_dicom_file, read_dicom_file, extract_metadata, the file information
\* and anonymize_metadata
MetaExtract(isdicom, readok) ==
    /\ meta.pc = "read"
    /\ meta' =
        IF ~isdicom
        THEN [meta EXCEPT !.pc = "finally", !.status = 400,
                          !.body = [error |-> "File must be a DICOM file"]]
        ELSE IF ~readok
        THEN [MetaFail(meta) EXCEPT !.pc = "finally"]
        ELSE LET metadata == AddFileInfo(extract_metadata(meta.ds),
                                         meta.file_name)
             IN  [pc |-> "log", ds |-> meta.ds, file_name |-> meta.file_name,
                  temp_exists |-> meta.temp_exists, status |-> 0,
                  body |-> NoBody, metadata |-> metadata,
                  anonymized_metadata |-> anonymize_metadata(metadata)]
    /\ UNCHANGED <<loaded_models, insts, th, admin, info, nreq, nadmin, call>>

\* log_dicom_metadata stores the record as extracted and re-raises a database
\* error; otherwise the response body is built from the anonymized copy
MetaLog(dbok) ==
    /\ meta.pc = "log"
    /\ meta' =
        IF dbok
        THEN [meta EXCEPT !.pc = "finally", !.status = 200,
                          !.body = [metadata |-> meta.anonymized_metadata,
                                    status |-> "success"]]
        ELSE [MetaFail(meta) EXCEPT !.pc = "finally"]
    /\ UNCHANGED <<loaded_models, insts, th, admin, info, nreq, nadmin, call>>

\* finally: the temporary file is unlinked
MetaFinally ==
    /\ meta.pc = "finally"
    /\ meta' = [meta EXCEPT !.pc = "respond", !.temp_exists = FALSE]
    /\ UNCHANGED <<loaded_models, insts, th, admin, info, nreq, nadmin, call>>

\* the response is sent; the next request can be taken
MetaRespond ==
    /\ meta.pc = "respond"
    /\ meta' = NoMeta
    /\ UNCHANGED <<loaded_models, insts, th, admin, info, nreq, nadmin, call>>

NextMeta ==
    \/ \E ds \in Datasets, fname \in FileNames, valid \in BOOLEAN :
          MetaBegin(ds, fname, valid)
    \/ \E ok \in BOOLEAN : MetaSave(ok)
    \/ \E isdicom \in BOOLEAN, readok \in BOOLEAN : MetaExtract(isdicom, readok)
    \/ \E dbok \in BOOLEAN : MetaLog(dbok)
    \/ MetaFinally
    \/ MetaRespond

SpecMeta == Init /\ [][NextMeta]_vars

\* a response of the metadata endpoint is ready to be sent
MetaResponse == meta.pc = "respond" /\ meta.status = 200

\* C11: every successful response of the DICOM metadata endpoint carries the
\* anonymized record (patient name the sentinel, patient id in the hash
\* form), and its patient name and patient id are never the raw values
\* extracted from the dataset.
C11_ResponseNeverCarriesRawIdentity ==
    MetaResponse =>
        /\ meta.body.metadata = anonymize_metadata(meta.metadata)
        /\ meta.body.metadata.patient_name = "ANONYMOUS"
        /\ meta.body.metadata.patient_id = "ANON_" \o Md5Hex8(meta.ds.PatientID)
        /\ meta.body.metadata.patient_name # meta.ds.PatientName
        /\ meta.body.metadata.patient_id # meta.ds.PatientID

\* anonymize_metadata has been applied to a record with a non-empty id
Anonymized ==
    /\ meta.pc \in {"log", "finally", "respond"}
    /\ "metadata" \in DOMAIN meta
    /\ meta.metadata.patient_id # ""

\* C12: for a record with a non-empty patient id, the anonymized patient id
\* differs from the input id and is a function of the input id alone; the
\* patient name becomes the sentinel; every other field is copied unchanged
\* and the input record keeps its values.
C12_AnonymizeChangesId ==
    Anonymized =>
        /\ meta.anonymized_metadata.patient_id # meta.metadata.patient_id
        /\ meta.anonymized_metadata.patient_id
              = "ANON_" \o Md5Hex8(meta.metadata.patient_id)
        /\ meta.anonymized_metadata.patient_name = "ANONYMOUS"
        /\ DOMAIN meta.anonymized_metadata = DOMAIN meta.metadata
        /\ \A k \in DOMAIN meta.metadata \ {"patient_id", "patient_name"} :
              meta.anonymized_metadata[k] = meta.metadata[k]
        /\ meta.metadata = AddFileInfo(extract_metadata(meta.ds), meta.file_name)


\* ------------------------------------- adapters: decoding the model output
\* Model outputs are integers (logits) or multiples of 1/PScale (outputs of
\* a sigmoid or softmax layer); probabilities are exact fractions n/d, d > 0.
MaxLogit == 1      \* logits range over -MaxLogit..MaxLogit
PScale   == 4      \* a network's own probabilities are multiples of 1/PScale

Logit == -MaxLogit..MaxLogit

Rat(n, d) == [n |-> n, d |-> d]
REq(a, b) == a.n * b.d = b.n * a.d
RLt(a, b) == a.n * b.d < b.n * a.d
RLe(a, b) == a.n * b.d <= b.n * a.d
RSub(a, b) == Rat(a.n * b.d - b.n * a.d, a.d * b.d)
RAdd(a, b) == Rat(a.n * b.d + b.n * a.d, a.d * b.d)
ROne == Rat(1, 1)
RHalf == Rat(1, 2)
RZero == Rat(0, 1)

RECURSIVE Pow2(_)
Pow2(n) == IF n <= 0 THEN 1 ELSE 2 * Pow2(n - 1)

RECURSIVE SumSeq(_)
SumSeq(s) == IF s = << >> THEN 0 ELSE Head(s) + SumSeq(Tail(s))

RECURSIVE RSumMap(_, _)
RSumMap(f, S) ==
    IF S = {} THEN RZero
    ELSE LET x == CHOOSE x \in S : TRUE IN RAdd(f[x], RSumMap(f, S \ {x}))

\* torch.softmax / F.softmax / tf.nn.softmax of a vector of logits, with the
\* exponential taken to base 2: positive, increasing in the logit, and
\* normalised by the sum
softmax(y) ==
    LET w == [i \in DOMAIN y |-> Pow2(y[i] + MaxLogit)]
    IN  [i \in DOMAIN y |-> Rat(w[i], SumSeq(w))]

\* torch.sigmoid of one logit, to the same base
sigmoid(l) == Rat(Pow2(l + MaxLogit), Pow2(l + MaxLogit) + Pow2(MaxLogit))

\* argmax: the first index holding the largest value (1-based here, the
\* code's index plus one)
argmax(ps) ==
    CHOOSE i \in DOMAIN ps :
        /\ \A j \in DOMAIN ps : RLe(ps[j], ps[i])
        /\ \A j \in DOMAIN ps : j < i => RLt(ps[j], ps[i])

\* torch.sort(descending=True)[0][1]: the largest value left once one
\* occurrence of the maximum is taken out
second(ps) ==
    LET i == argmax(ps)
        k == CHOOSE k \in DOMAIN ps \ {i} :
                \A j \in DOMAIN ps \ {i} : RLe(ps[j], ps[k])
    IN  ps[k]

\* {c: p for c, p in zip(classes, probs)}: zip stops at the shorter one
zip(classes, probs) ==
    LET n == IF Len(classes) < Len(probs) THEN Len(classes) ELSE Len(probs)
    IN  [c \in {classes[i] : i \in 1..n} |->
            probs[CHOOSE i \in 1..n : classes[i] = c]]

\* self.classes of each adapter class
Classes(cls) ==
    CASE cls = "DROCTModel"          -> <<"DR", "Normal">>
      [] cls = "DRFundusModel"       -> <<"No DR", "Early pathology", "Advanced pathology">>
      [] cls = "AMDOCTModel"         -> <<"Control", "Early", "Intermediate", "Late">>
      [] cls = "AMDFundusModel"      -> <<"No AMD", "AMD Present">>
      [] cls = "GlaucomaFundusModel" -> <<"Glaucoma Suspected", "No Glaucoma">>
      [] cls = "BiomarkerModel"      -> << >>

\* an input batch: its channel count and, for the stand-in regressors, the
\* mean intensity the pooling layer reduces it to
Channels == {1, 3}
BatchMeans == {-1, 0, 2}
Batches == [c : Channels, mean : BatchMeans]

\* what a call of predict ends in
Normal(r)  == [raised |-> FALSE, path |-> "normal", result |-> r]
Default(r) == [raised |-> FALSE, path |-> "default", result |-> r]
Raised(e)  == [raised |-> TRUE, path |-> "none", result |-> [error |-> e]]

\* self.model(x) of a torch module or Keras model built for in_c channels
\* (0: any) fails on a batch with another channel count
ForwardOK(net, c) == net.in_c = 0 \/ net.in_c = c

\* DROCTModel.predict: channels are aligned with the model's input, then a
\* scalar output is P(Normal), two outputs go through softmax, anything
\* else raises; there is no try block
DROCT_predict(net, batch, y) ==
    LET expected_c == IF net.in_c = 0 THEN batch.c ELSE net.in_c
        xc == IF batch.c = 1 /\ expected_c = 3 THEN 3
              ELSE IF batch.c = 3 /\ expected_c = 1 THEN 1
              ELSE batch.c
        classes == Classes("DROCTModel")
    IN  IF ~ForwardOK(net, xc) THEN Raised("InvalidArgumentError")
        ELSE IF Len(y.v) \notin {1, 2} THEN Raised("ValueError")
        ELSE LET probs == IF Len(y.v) = 1
                          THEN <<Rat(y.d - y.v[1], y.d), Rat(y.v[1], y.d)>>
                          ELSE softmax(y.v)
                 idx == argmax(probs)
             IN  Normal([prediction |-> classes[idx],
                         confidence |-> probs[idx],
                         probabilities |-> zip(classes, probs),
                         classes |-> classes])

DRFundus_default ==
    [prediction |-> "No DR", confidence |-> RZero,
     probabilities |-> <<ROne, RZero, RZero>>,
     classes |-> Classes("DRFundusModel")]

\* the largest probability (confidence_score of line 135) instead of the
\* margin
margin_confidence_top(probabilities) == probabilities[argmax(probabilities)]

\* DRFundusModel.predict, lines 138-139: the largest minus the second
\* largest probability
margin_confidence(probabilities) ==
    RSub(probabilities[argmax(probabilities)], second(probabilities))

\* DRFundusModel.predict: softmax, argmax, and the margin between the two
\* largest probabilities as confidence; any exception gives the default
DRFundus_predict(net, batch, y) ==
    LET classes == Classes("DRFundusModel")
        probabilities == softmax(y.v)
        predicted_class == argmax(probabilities)
    IN  IF ~ForwardOK(net, batch.c) THEN Default(DRFundus_default)
        ELSE IF predicted_class > Len(classes) \/ Len(y.v) < 2
        THEN Default(DRFundus_default)
        ELSE Normal([prediction |-> classes[predicted_class],
                     confidence |-> margin_confidence(probabilities),
                     probabilities |-> probabilities,
                     classes |-> classes])

AMDOCT_default ==
    [prediction |-> "Normal", confidence |-> Rat(85, 100),
     class_probabilities |->
        [c \in {"Normal", "Early AMD", "Intermediate AMD", "Advanced AMD"} |->
            CASE c = "Normal"           -> Rat(85, 100)
              [] c = "Early AMD"        -> Rat(10, 100)
              [] c = "Intermediate AMD" -> Rat(3, 100)
              [] c = "Advanced AMD"     -> Rat(2, 100)]]

\* AMDOCTModel.predict: softmax, argmax, the largest probability
AMDOCT_predict(net, batch, y) ==
    LET classes == Classes("AMDOCTModel")
        probabilities == softmax(y.v)
        predicted_class == argmax(probabilities)
    IN  IF ~ForwardOK(net, batch.c) THEN Default(AMDOCT_default)
        ELSE IF predicted_class > Len(classes) THEN Default(AMDOCT_default)
        ELSE Normal([prediction |-> classes[predicted_class],
                     confidence |-> probabilities[predicted_class],
                     class_probabilities |-> zip(classes, probabilities)])

AMDFundus_default ==
    [prediction |-> "No AMD", confidence |-> Rat(92, 100),
     probability |-> Rat(8, 100)]

\* the class index as the code prints it when it is outside self.classes
IndexName(idx) ==
    CASE idx = 0 -> "0" [] idx = 1 -> "1" [] idx = 2 -> "2" [] idx = 3 -> "3"

\* the reported probability as confidence whatever the class
AMDFundus_confidence_raw(ncols, idx, prob) == prob

\* AMDFundusModel.predict, lines 363-367: the confidence from the class
\* index, the number of logits and the reported probability
AMDFundus_confidence(ncols, idx, prob) ==
    IF ncols = 1 \/ ncols = 2
    THEN IF idx = 1 THEN prob ELSE RSub(ROne, prob)
    ELSE prob

\* AMDFundusModel.predict: one logit goes through a sigmoid and is compared
\* with 0.5; more go through softmax and argmax, and the probability
\* reported is that of index 1
AMDFundus_predict(net, batch, y) ==
    LET classes == Classes("AMDFundusModel")
        ncols == Len(y.v)
        probs == softmax(y.v)
        idx == IF ncols = 1
               THEN IF RLt(RHalf, sigmoid(y.v[1])) THEN 1 ELSE 0
               ELSE argmax(probs) - 1
        prob == IF ncols = 1 THEN sigmoid(y.v[1]) ELSE probs[2]
    IN  IF ~ForwardOK(net, batch.c) \/ ncols = 0
        THEN Default(AMDFundus_default)
        ELSE Normal([prediction |-> IF Len(classes) > idx
                                    THEN classes[idx + 1] ELSE IndexName(idx),
                     confidence |-> AMDFundus_confidence(ncols, idx, prob),
                     probability |-> prob])

Glaucoma_default ==
    [prediction |-> "No Glaucoma", confidence |-> Rat(88, 100),
     class_probabilities |->
        [c \in {"No Glaucoma", "Glaucoma Suspected", "Glaucoma"} |->
            CASE c = "No Glaucoma"        -> Rat(88, 100)
              [] c = "Glaucoma Suspected" -> Rat(8, 100)
              [] c = "Glaucoma"           -> Rat(4, 100)]]

\* the test of line 441 negated: every value within [0, 1] and the sum 1
IsDistribution(y) ==
    /\ \A i \in DOMAIN y.v : 0 <= y.v[i] /\ y.v[i] <= y.d
    /\ SumSeq(y.v) = y.d

\* GlaucomaFundusModel.predict: a batch without 3 channels raises inside the
\* try; softmax is applied unless the output already is a distribution
Glaucoma_predict(net, batch, y) ==
    LET classes == Classes("GlaucomaFundusModel")
        probs == IF IsDistribution(y)
                 THEN [i \in DOMAIN y.v |-> Rat(y.v[i], y.d)]
                 ELSE softmax(y.v)
        idx == argmax(probs)
    IN  IF batch.c # 3 THEN Default(Glaucoma_default)
        ELSE IF ~ForwardOK(net, batch.c) THEN Default(Glaucoma_default)
        ELSE IF idx > Len(classes) THEN Default(Glaucoma_default)
        ELSE Normal([prediction |-> classes[idx],
                     confidence |-> probs[idx],
                     class_probabilities |-> zip(classes, probs)])

\* --------------------------------------------------- biomarker regressors
\* the keys of BiomarkerModel.BIOMARKER_CONFIG
BiomarkerNames ==
    {"Age", "BMI", "BP_OUT_CALC_AVG_DIASTOLIC_BP", "BP_OUT_CALC_AVG_SYSTOLIC_BP",
     "Cholesterol Total", "HDL-Cholesterol", "LDL-Cholesterol Calc",
     "Triglyceride", "Glucose", "HbA1C %", "Insulin", "Hematocrit",
     "Hemoglobin", "Red Blood Cell", "Creatinine",
     "Sex Hormone Binding Globulin", "Estradiol", "Testosterone Total"}

Cfg(u, r) == [unit |-> u, normal_range |-> r, scale_factor |-> 1]

\* BiomarkerModel.BIOMARKER_CONFIG (the micro sign is written u)
BIOMARKER_CONFIG(n) ==
    CASE n = "Age"                          -> Cfg("years", "18-80")
      [] n = "BMI"                          -> Cfg("kg/m^2", "18.5-24.9")
      [] n = "BP_OUT_CALC_AVG_DIASTOLIC_BP" -> Cfg("mmHg", "60-80")
      [] n = "BP_OUT_CALC_AVG_SYSTOLIC_BP"  -> Cfg("mmHg", "90-120")
      [] n = "Cholesterol Total"            -> Cfg("mmol/L", "<5.2")
      [] n = "HDL-Cholesterol"              -> Cfg("mmol/L", ">1.0 (M), >1.3 (F)")
      [] n = "LDL-Cholesterol Calc"         -> Cfg("mmol/L", "<2.6")
      [] n = "Triglyceride"                 -> Cfg("mmol/L", "<1.7")
      [] n = "Glucose"                      -> Cfg("mmol/L", "3.9-5.6")
      [] n = "HbA1C %"                      -> Cfg("%", "<5.7")
      [] n = "Insulin"                      -> Cfg("mcunit/mL", "2.6-24.9")
      [] n = "Hematocrit"                   -> Cfg("%", "36-46 (F), 41-50 (M)")
      [] n = "Hemoglobin"                   -> Cfg("g/dL", "12-15.5 (F), 13.5-17.5 (M)")
      [] n = "Red Blood Cell"               -> Cfg("x10^6/uL", "4.0-5.2 (F), 4.7-6.1 (M)")
      [] n = "Creatinine"                   -> Cfg("umol/L", "53-115")
      [] n = "Sex Hormone Binding Globulin" -> Cfg("nmol/L", "18-144")
      [] n = "Estradiol"                    -> Cfg("pmol/L", "55-1285")
      [] n = "Testosterone Total"           -> Cfg("nmol/L", "10-35 (M), 0.5-2.4 (F)")

\* dummy_values of _get_dummy_prediction.  Predicted values are counted in
\* thousandths: 45.2 is 45200.
dummy_values(n) ==
    CASE n = "Age"                          -> 45200
      [] n = "BMI"                          -> 23500
      [] n = "BP_OUT_CALC_AVG_DIASTOLIC_BP" -> 72000
      [] n = "BP_OUT_CALC_AVG_SYSTOLIC_BP"  -> 118000
      [] n = "Cholesterol Total"            -> 185000
      [] n = "Creatinine"                   -> 900
      [] n = "Estradiol"                    -> 150000
      [] n = "Glucose"                      -> 95000
      [] n = "HbA1C %"                      -> 5200
      [] n = "HDL-Cholesterol"              -> 55000
      [] n = "Hematocrit"                   -> 42000
      [] n = "Hemoglobin"                   -> 14200
      [] n = "Insulin"                      -> 12500
      [] n = "LDL-Cholesterol Calc"         -> 95000
      [] n = "Red Blood Cell"               -> 4800
      [] n = "Sex Hormone Binding Globulin" -> 45000
      [] n = "Testosterone Total"           -> 450000
      [] n = "Triglyceride"                 -> 120000

\* the value without rounding
round2_keep(v) == v

\* round(v, 2) on a value in thousandths: the nearest multiple of 10, a
\* tie going to the even hundredth
round2(v) ==
    LET q == v \div 10
        r == v % 10
    IN  IF r < 5 THEN 10 * q
        ELSE IF r > 5 THEN 10 * (q + 1)
        ELSE IF q % 2 = 0 THEN 10 * q ELSE 10 * (q + 1)

\* BiomarkerModel._get_dummy_prediction
get_dummy_prediction(name) ==
    [biomarker_name |-> name,
     predicted_value |-> dummy_values(name),
     unit |-> BIOMARKER_CONFIG(name).unit,
     normal_range |-> BIOMARKER_CONFIG(name).normal_range,
     confidence |-> Rat(85, 100)]

\* BiomarkerModel.predict: the network's single output times scale_factor,
\* rounded to 2 decimals; any exception gives _get_dummy_prediction
Biomarker_predict(name, net, batch, raw) ==
    IF ~ForwardOK(net, batch.c) THEN Default(get_dummy_prediction(name))
    ELSE Normal([biomarker_name |-> name,
                 predicted_value |->
                    round2(raw * BIOMARKER_CONFIG(name).scale_factor),
                 unit |-> BIOMARKER_CONFIG(name).unit,
                 normal_range |-> BIOMARKER_CONFIG(name).normal_range,
                 confidence |-> Rat(85, 100)])

\* -------------------------------- AMD fundus: head width from a checkpoint
MaxHead == 3       \* rows of a classifier weight, entries of class_to_idx

\* keys _extract_state_dict looks for, in its order
WrapKeys == <<"model_state", "state_dict", "weights", "model">>

\* where a checkpoint file keeps its tensor map: under one of WrapKeys,
\* under a key the code does not know, or as the file's top-level dict
Wraps == {WrapKeys[i] : i \in DOMAIN WrapKeys} \cup {"net", "bare"}

\* parameter names of a resnet50 state dict, as saved plain or from a
\* DataParallel wrapper
ParamKeys == {"fc.weight", "module.fc.weight",
              "conv1.weight", "module.conv1.weight"}

FcKeys == {"fc.weight", "module.fc.weight"}

\* tensor maps: parameter name -> number of rows of the tensor
StateDicts ==
    {[k \in K |-> IF k \in FcKeys THEN r ELSE 64] :
        K \in SUBSET ParamKeys, r \in 1..MaxHead}

\* what torch.load returns: a dict holding a tensor map and possibly a
\* class_to_idx dict (its size, -1 when absent), or a pickled module
Checkpoints ==
    [is_dict : {TRUE}, wrap : Wraps, state : StateDicts,
     class_to_idx : -1..MaxHead]
    \cup {[is_dict |-> FALSE, wrap |-> "bare", state |-> << >>,
           class_to_idx |-> -1]}

\* AMDFundusModel._extract_state_dict: the dict under the first known key,
\* else the checkpoint itself
extract_state_dict(ckpt) ==
    IF \E i \in DOMAIN WrapKeys : WrapKeys[i] = ckpt.wrap THEN ckpt.state
    ELSE IF ckpt.wrap = "bare" THEN ckpt.state
    ELSE [k \in {ckpt.wrap} |-> 0]

\* k.startswith("module.")
StartsWithModule(k) == k \in {"module.fc.weight", "module.conv1.weight"}

\* k[len("module."):], the key without its first 7 characters
StripKey(k) ==
    CASE k = "module.fc.weight"    -> "fc.weight"
      [] k = "module.conv1.weight" -> "conv1.weight"
      [] k = "fc.weight"           -> "ght"
      [] k = "conv1.weight"        -> "eight"
      [] k = "net"                 -> ""

\* AMDFundusModel._strip_module_prefix: when any key has the prefix, every
\* key loses its first 7 characters
strip_module_prefix(state) ==
    IF \E k \in DOMAIN state : StartsWithModule(k)
    THEN [k2 \in {StripKey(k) : k \in DOMAIN state} |->
            state[CHOOSE k \in DOMAIN state : StripKey(k) = k2]]
    ELSE state

\* the width of the head with class_to_idx consulted first
out_features_mapping_first(ckpt) ==
    LET state == strip_module_prefix(extract_state_dict(ckpt))
    IN  IF ckpt.class_to_idx >= 0
        THEN IF ckpt.class_to_idx = 2 THEN 1 ELSE ckpt.class_to_idx
        ELSE IF "fc.weight" \in DOMAIN state THEN state["fc.weight"]
        ELSE IF "module.fc.weight" \in DOMAIN state
        THEN state["module.fc.weight"]
        ELSE 1

\* AMDFundusModel.load_model, lines 286-299: the width of the head
out_features(ckpt) ==
    LET state == strip_module_prefix(extract_state_dict(ckpt))
    IN  IF "fc.weight" \in DOMAIN state THEN state["fc.weight"]
        ELSE IF "module.fc.weight" \in DOMAIN state
        THEN state["module.fc.weight"]
        ELSE IF ckpt.class_to_idx >= 0
        THEN IF ckpt.class_to_idx = 2 THEN 1 ELSE ckpt.class_to_idx
        ELSE 1

\* ------------------------------------------------------------- networks
\* a network: the channel count it accepts (0: any), the number of values
\* it emits, whether they are probabilities, and for the stand-in
\* regressor the weight and bias of its Linear layer in thousandths
Net(c, n, dist) == [in_c |-> c, nout |-> n, dist |-> dist, w |-> 0, b |-> 0]

\* outputs a regression network trained for a biomarker can give, thousandths
RawValues == {-15, 0, 1234, 1235, 1236, 45199}

\* weights and biases nn.Linear(3, 1) can be initialised with, thousandths
DummyWeights == {-500, 250}
DummyBiases == {0, 125}

\* the networks a model file of each class can hold
RealNets(cls) ==
    CASE cls = "DROCTModel" ->
            {Net(c, 1, TRUE) : c \in Channels} \cup
            {Net(c, n, FALSE) : c \in Channels, n \in {2, 3}}
      [] cls = "DRFundusModel" -> {Net(c, 3, FALSE) : c \in Channels}
      [] cls = "AMDOCTModel" -> {Net(3, 4, FALSE)}
      [] cls = "AMDFundusModel" ->
            {Net(3, out_features(ckpt), FALSE) :
                ckpt \in {c \in Checkpoints : c.is_dict}}
      [] cls = "GlaucomaFundusModel" ->
            {Net(3, 2, TRUE), Net(3, 2, FALSE), Net(3, 3, FALSE)}
      [] cls = "BiomarkerModel" -> {Net(3, 1, FALSE)}
      [] OTHER -> {}

\* what _create_dummy_model / _create_dummy_tf_model of each class builds
DummyNets(cls) ==
    CASE cls = "DRFundusModel" -> {Net(0, 3, FALSE)}
      [] cls = "AMDOCTModel" -> {Net(3, 4, FALSE)}
      [] cls = "AMDFundusModel" -> {Net(3, 1, FALSE)}
      [] cls = "GlaucomaFundusModel" -> {Net(3, 2, TRUE)}
      [] cls = "BiomarkerModel" ->
            {[in_c |-> 3, nout |-> 1, dist |-> FALSE, w |-> w, b |-> b] :
                w \in DummyWeights, b \in DummyBiases}
      [] OTHER -> {}

\* the values a forward pass of the network can return
Outputs(net) ==
    IF net.dist
    THEN IF net.nout = 1
         THEN {[d |-> PScale, v |-> <<k>>] : k \in 0..PScale}
         ELSE {[d |-> PScale, v |-> <<k, PScale - k>>] : k \in 0..PScale}
    ELSE {[d |-> 1, v |-> l] : l \in [1..net.nout -> Logit]}

\* the single output of a regressor on a batch: the stand-in is a Linear
\* layer on the pooled batch, a trained network can give any value
RawOutputs(a, net, batch) ==
    IF a.model = "dummy" THEN {net.w * batch.mean + net.b} ELSE RawValues

\* ------------------------------------------- adapters: load, then predict
AdapterClasses == {AdapterClass(k) : k \in Keys}

\* the names an adapter of the class is constructed with
NamesOf(cls) == IF cls = "BiomarkerModel" THEN BiomarkerNames ELSE {"none"}

\* <Adapter>.__init__
NewModel(cls, name) ==
    [cls |-> cls, biomarker_name |-> name, model |-> "none",
     is_loaded |-> FALSE]

AllNets == UNION {RealNets(c) \cup DummyNets(c) : c \in AdapterClasses}

NoPrev == [seen |-> FALSE]

\* an adapter is constructed and load_model is called on it, as a
\* get_*_model method does on a cache miss
GetAdapter(cls, name, art, net) ==
    /\ call.op = "none"
    /\ LET r == load_model(NewModel(cls, name), art)
       IN  IF r.raised
           THEN call' = [op |-> "load_raised", adapter |-> r.adapter]
           ELSE /\ net \in (IF r.adapter.model = "real"
                            THEN RealNets(cls) ELSE DummyNets(cls))
                /\ call' = [op |-> "loaded", adapter |-> r.adapter,
                            net |-> net, prev |-> NoPrev]
    /\ UNCHANGED <<loaded_models, insts, th, admin, info, nreq, nadmin, meta>>

\* AMDFundusModel.load_model on an existing file: the head is sized from
\* the checkpoint; a checkpoint that is not a dict has no keys() and the
\* except branch builds the stand-in
LoadAMDFundus(ckpt) ==
    /\ call.op = "none"
    /\ LET a == NewModel("AMDFundusModel", "none")
       IN  IF ckpt.is_dict
           THEN call' = [op |-> "loaded",
                         adapter |-> [a EXCEPT !.model = "real",
                                               !.is_loaded = TRUE],
                         net |-> Net(3, out_features(ckpt), FALSE),
                         prev |-> NoPrev, ckpt |-> ckpt]
           ELSE \E net \in DummyNets("AMDFundusModel") :
                  call' = [op |-> "loaded",
                           adapter |-> [a EXCEPT !.model = "dummy",
                                                 !.is_loaded = TRUE],
                           net |-> net, prev |-> NoPrev, ckpt |-> ckpt]
    /\ UNCHANGED <<loaded_models, insts, th, admin, info, nreq, nadmin, meta>>

\* an adapter of the class is loaded and predict can be called on it
Ready(cls) ==
    /\ call.op = "loaded"
    /\ call.adapter.cls = cls
    /\ call.adapter.is_loaded

\* the outputs the loaded network can give
CurrentOutputs ==
    IF call.op = "loaded" THEN Outputs(call.net) ELSE {}

\* the batches of a classifier call: only the channel count matters
ImageBatches == {b \in Batches : b.mean = 0}

Called(batch, y, out, prev) ==
    [op |-> "predict", adapter |-> call.adapter, net |-> call.net,
     batch |-> batch, y |-> y, out |-> out, prev |-> prev]

PredictDROCT(batch, y) ==
    /\ Ready("DROCTModel")
    /\ call' = Called(batch, y, DROCT_predict(call.net, batch, y), NoPrev)
    /\ UNCHANGED <<loaded_models, insts, th, admin, info, nreq, nadmin, meta>>

PredictDRFundus(batch, y) ==
    /\ Ready("DRFundusModel")
    /\ call' = Called(batch, y, DRFundus_predict(call.net, batch, y), NoPrev)
    /\ UNCHANGED <<loaded_models, insts, th, admin, info, nreq, nadmin, meta>>

PredictAMDOCT(batch, y) ==
    /\ Ready("AMDOCTModel")
    /\ call' = Called(batch, y, AMDOCT_predict(call.net, batch, y), NoPrev)
    /\ UNCHANGED <<loaded_models, insts, th, admin, info, nreq, nadmin, meta>>

PredictAMDFundus(batch, y) ==
    /\ Ready("AMDFundusModel")
    /\ call' = Called(batch, y, AMDFundus_predict(call.net, batch, y), NoPrev)
    /\ UNCHANGED <<loaded_models, insts, th, admin, info, nreq, nadmin, meta>>

PredictGlaucoma(batch, y) ==
    /\ Ready("GlaucomaFundusModel")
    /\ call' = Called(batch, y, Glaucoma_predict(call.net, batch, y), NoPrev)
    /\ UNCHANGED <<loaded_models, insts, th, admin, info, nreq, nadmin, meta>>

\* prev is the batch and the value of the call before on the same adapter
PredictBiomarker(batch, raw) ==
    /\ Ready("BiomarkerModel")
    /\ raw \in RawOutputs(call.adapter, call.net, batch)
    /\ call' = Called(batch, [d |-> 1000, v |-> <<raw>>],
                      Biomarker_predict(call.adapter.biomarker_name,
                                        call.net, batch, raw),
                      call.prev)
    /\ UNCHANGED <<loaded_models, insts, th, admin, info, nreq, nadmin, meta>>

\* predict has returned: the adapter stays loaded for the next call
Return ==
    /\ call.op = "predict"
    /\ call' = [op |-> "loaded", adapter |-> call.adapter, net |-> call.net,
                prev |-> IF call.adapter.cls = "BiomarkerModel"
                         THEN [seen |-> TRUE, batch |-> call.batch,
                               value |-> call.out.result.predicted_value]
                         ELSE NoPrev]
    /\ UNCHANGED <<loaded_models, insts, th, admin, info, nreq, nadmin, meta>>

\* every value a regressor of the model can return
AllRaw ==
    RawValues \cup {w * m + b : w \in DummyWeights, m \in BatchMeans,
                                b \in DummyBiases}

NextPredict ==
    \/ \E cls \in AdapterClasses, art \in Artifacts, net \in AllNets :
          \E name \in NamesOf(cls) : GetAdapter(cls, name, art, net)
    \/ \E batch \in ImageBatches, y \in CurrentOutputs : PredictDROCT(batch, y)
    \/ \E batch \in ImageBatches, y \in CurrentOutputs : PredictDRFundus(batch, y)
    \/ \E batch \in ImageBatches, y \in CurrentOutputs : PredictAMDOCT(batch, y)
    \/ \E batch \in ImageBatches, y \in CurrentOutputs : PredictAMDFundus(batch, y)
    \/ \E batch \in ImageBatches, y \in CurrentOutputs : PredictGlaucoma(batch, y)
    \/ \E batch \in Batches, raw \in AllRaw : PredictBiomarker(batch, raw)
    \/ Return

SpecPredict == Init /\ [][NextPredict]_vars

\* the AMD fundus adapter loading checkpoint files
NextHead == \E ckpt \in Checkpoints : LoadAMDFundus(ckpt)

SpecHead == Init /\ [][NextHead]_vars


\* ------------------------------------------- properties of the adapters
\* predict has been called and has returned a result computed from the
\* network's output
Predicted(cls) ==
    /\ call.op = "predict"
    /\ call.adapter.cls = cls
    /\ ~call.out.raised

Decoded(cls) == Predicted(cls) /\ call.out.path = "normal"

InUnit(r) == RLe(RZero, r) /\ RLe(r, ROne)

\* the probability of the positive class (index 1) a single-output network
\* has produced
PositiveProb ==
    IF call.adapter.cls = "AMDFundusModel" THEN sigmoid(call.y.v[1])
    ELSE Rat(call.y.v[1], call.y.d)

\* C13: for the adapters decoding a single output (AMD fundus with one
\* logit, DR OCT with a scalar), the predicted class is the positive one
\* exactly when its probability p exceeds 0.5 (p = 0.5 gives the negative
\* class), the confidence is p for the positive class and 1 - p otherwise,
\* and both lie in [0, 1].
C13_SingleLogitThreshold ==
    \A cls \in {"AMDFundusModel", "DROCTModel"} :
        (Decoded(cls) /\ Len(call.y.v) = 1) =>
            LET p == PositiveProb
                r == call.out.result
                positive == r.prediction = Classes(cls)[2]
            IN  /\ positive <=> RLt(RHalf, p)
                /\ ~positive => r.prediction = Classes(cls)[1]
                /\ REq(r.confidence, IF positive THEN p ELSE RSub(ROne, p))
                /\ InUnit(p) /\ InUnit(r.confidence)

\* the AMD fundus adapter has decoded a single logit of 0, p = 0.5
C13_Witness ==
    /\ Decoded("AMDFundusModel")
    /\ call.y.v = <<0>>
    /\ call.out.result.prediction = "No AMD"
    /\ REq(call.out.result.confidence, RHalf)

\* the class probabilities of the network's output: the output itself where
\* the glaucoma network already emits a distribution, its softmax otherwise
ClassProbs ==
    IF call.adapter.cls = "GlaucomaFundusModel" /\ IsDistribution(call.y)
    THEN [i \in DOMAIN call.y.v |-> Rat(call.y.v[i], call.y.d)]
    ELSE softmax(call.y.v)

\* the label of the class with 1-based index i
Label(cls, i) ==
    IF i <= Len(Classes(cls)) THEN Classes(cls)[i] ELSE IndexName(i - 1)

\* C14: for the adapters decoding two or more logits by softmax (AMD OCT,
\* AMD fundus, glaucoma, DR OCT), the predicted class is the arg-max class
\* and the confidence is the largest class probability, for any number of
\* classes.
C14_SoftmaxMaxConfidence ==
    \A cls \in {"AMDOCTModel", "AMDFundusModel", "GlaucomaFundusModel",
                "DROCTModel"} :
        (Decoded(cls) /\ Len(call.y.v) >= 2) =>
            LET P == ClassProbs
                r == call.out.result
            IN  /\ \A i \in DOMAIN P : RLe(P[i], r.confidence)
                /\ \E i \in DOMAIN P : REq(P[i], r.confidence)
                /\ r.prediction = Label(cls, argmax(P))

\* the per-class probabilities a result carries: the mapping by class name,
\* or for the DR fundus adapter the list that goes with its 'classes'
ResultProbs(cls, r) ==
    IF "class_probabilities" \in DOMAIN r THEN r.class_probabilities
    ELSE IF cls = "DRFundusModel"
    THEN zip(r.classes, r.probabilities)
    ELSE r.probabilities

Names(cls) == {Classes(cls)[i] : i \in DOMAIN Classes(cls)}

\* |r - 1| <= 1e-3
NearOne(r) ==
    /\ 1000 * (r.n - r.d) <= r.d
    /\ 1000 * (r.d - r.n) <= r.d

\* C15: every result of a softmax adapter with N classes, from the normal
\* and from the default path, carries one probability for each of the
\* adapter's N class names and no other entry, and they sum to 1 within
\* 1e-3.
C15_ProbabilityMapComplete ==
    \A cls \in {"AMDOCTModel", "GlaucomaFundusModel", "DRFundusModel",
                "DROCTModel"} :
        Predicted(cls) =>
            LET m == ResultProbs(cls, call.out.result)
            IN  /\ DOMAIN m = Names(cls)
                /\ Cardinality(DOMAIN m) = Len(Classes(cls))
                /\ NearOne(RSumMap(m, DOMAIN m))

\* C16: the confidence the DR fundus adapter reports is the largest softmax
\* probability minus the second largest, not the largest itself; it lies in
\* [0, 1], is 0 exactly when the two largest are equal, and the predicted
\* class is still the arg-max class.
C16_MarginConfidence ==
    Decoded("DRFundusModel") =>
        LET P == softmax(call.y.v)
            r == call.out.result
        IN  \E i \in DOMAIN P : \E j \in DOMAIN P \ {i} :
                /\ \A k \in DOMAIN P : RLe(P[k], P[i])
                /\ \A k \in DOMAIN P \ {i} : RLe(P[k], P[j])
                /\ REq(r.confidence, RSub(P[i], P[j]))
                /\ RLt(r.confidence, P[i])
                /\ InUnit(r.confidence)
                /\ REq(r.confidence, RZero) <=> REq(P[i], P[j])
                /\ r.prediction = Classes("DRFundusModel")[argmax(P)]

\* the DR fundus adapter has decoded logits whose two largest are equal
C16_Witness ==
    /\ Decoded("DRFundusModel")
    /\ call.y.v = <<0, 1, 1>>
    /\ call.out.result.prediction = "Early pathology"
    /\ REq(call.out.result.confidence, RZero)

\* C17: every result of a biomarker adapter, from the normal and from the
\* default path, has a predicted value with 2 decimals (on the normal path
\* the network's scaled output rounded to the nearest hundredth), the unit
\* and reference range of the biomarker's BIOMARKER_CONFIG entry, and the
\* confidence 0.85.
C17_BiomarkerResult ==
    Predicted("BiomarkerModel") =>
        LET r == call.out.result
            name == call.adapter.biomarker_name
            raw == call.y.v[1] * BIOMARKER_CONFIG(name).scale_factor
        IN  /\ r.predicted_value % 10 = 0
            /\ call.out.path = "normal" =>
                  /\ r.predicted_value - raw <= 5
                  /\ raw - r.predicted_value <= 5
            /\ r.biomarker_name = name
            /\ r.unit = BIOMARKER_CONFIG(name).unit
            /\ r.normal_range = BIOMARKER_CONFIG(name).normal_range
            /\ REq(r.confidence, Rat(85, 100))

\* a biomarker adapter has rounded an output that has a third decimal
C17_Witness ==
    /\ Decoded("BiomarkerModel")
    /\ call.adapter.biomarker_name = "HbA1C %"
    /\ call.y.v[1] = 1236
    /\ call.out.result.predicted_value = 1240
    /\ call.out.result.unit = "%"

\* C18: a biomarker adapter whose model file is absent returns from predict
\* a result with the configured unit and reference range and a fixed
\* value: the value of the call before on the same adapter, whatever the
\* two batches.
C18_AbsentModelFixedValue ==
    (call.op = "predict" /\ call.adapter.cls = "BiomarkerModel"
        /\ call.adapter.model = "dummy") =>
        LET r == call.out.result
            name == call.adapter.biomarker_name
        IN  /\ ~call.out.raised
            /\ r.unit = BIOMARKER_CONFIG(name).unit
            /\ r.normal_range = BIOMARKER_CONFIG(name).normal_range
            /\ call.prev.seen => r.predicted_value = call.prev.value

\* C19: when the network's channel count and the batch's are 1 and 3 or 3
\* and 1, predict reconciles them and decodes the network's output: it
\* neither raises nor returns the default result.
C19_ChannelsReconciled ==
    (call.op = "predict" /\ call.net.in_c \in Channels
        /\ call.batch.c \in Channels /\ call.batch.c # call.net.in_c) =>
        /\ ~call.out.raised
        /\ call.out.path = "normal"

\* AMDFundusModel.load_model has sized the head from a checkpoint dict
HeadSized ==
    /\ call.op = "loaded"
    /\ "ckpt" \in DOMAIN call
    /\ call.ckpt.is_dict

\* the checkpoint's tensor map holds a classifier weight
HasFcWeight(ckpt) == \E k \in FcKeys : k \in DOMAIN ckpt.state

FcRows(ckpt) == ckpt.state[CHOOSE k \in FcKeys : k \in DOMAIN ckpt.state]

FcFound(ckpt) ==
    /\ ckpt.wrap # "net"
    /\ \/ "module.fc.weight" \in DOMAIN ckpt.state
       \/ /\ "fc.weight" \in DOMAIN ckpt.state
          /\ \A k \in DOMAIN ckpt.state : ~StartsWithModule(k)

Bytes == {"D", "I", "C", "M", "X"}

MagicOffset == 128
MagicLen == 4
DICM == <<"D", "I", "C", "M">>

Words == {DICM, <<"D", "I", "C", "X">>, <<"M", "C", "I", "D">>,
          <<"X", "D", "I", "C">>}
WordOffsets == {0, 126, 127, 128, 129, 132}
BufLens == {0, 64, 128, 130, 131, 132, 136, 1024}

Buffers == [len : BufLens, off : WordOffsets, word : Words]

\* the byte at offset i < len
ByteAt(buf, i) ==
    IF buf.off <= i /\ i < buf.off + 4 THEN buf.word[i - buf.off + 1] ELSE "X"

\* f.seek(pos); f.read(n): the bytes from pos to the end, at most n
ReadAt(buf, pos, n) ==
    LET last == IF pos + n < buf.len THEN pos + n ELSE buf.len
    IN  [i \in 1..(IF last > pos THEN last - pos ELSE 0) |->
            ByteAt(buf, pos + i - 1)]

\* the first 4 bytes instead of those at offset 128
read_magic_start(buf) == ReadAt(buf, 0, MagicLen)

\* is_dicom_file, lines 28-29 and 32-33: seek(128), read(4)
read_magic(buf) == ReadAt(buf, MagicOffset, MagicLen)

\* what is_dicom_file is given: bytes, or the path of a file that open()
\* can or cannot read; wellformed says whether the data elements after the
\* preamble parse
DicomInputs ==
    [kind : {"bytes"}, name : {"none"}, readable : {TRUE},
     buf : Buffers, wellformed : BOOLEAN]
    \cup
    [kind : {"path"}, name : {"scan.dcm", "scan", "upload.tmp"},
     readable : BOOLEAN, buf : Buffers, wellformed : BOOLEAN]

\* pydicom.dcmread(fp, stop_before_pixels=True), force not set: raises on
\* bytes (not a path or file object), on a file it cannot open, on a
\* file without the DICM prefix after the preamble, and on elements that do
\* not parse
dcmread_ok(inp) ==
    /\ inp.kind = "path"
    /\ inp.readable
    /\ read_magic(inp.buf) = DICM
    /\ inp.wellformed

\* DicomProcessor.is_dicom_file: the verdict, and whether the pydicom
\* fall-back of the except branch ran
is_dicom_file(inp) ==
    IF inp.kind = "bytes" \/ inp.readable
    THEN [result |-> read_magic(inp.buf) = DICM, parse_attempted |-> FALSE]
    ELSE [result |-> dcmread_ok(inp), parse_attempted |-> TRUE]

IsDicomFile(inp) ==
    /\ call.op = "none"
    /\ call' = [op |-> "is_dicom_file", inp |-> inp,
                out |-> is_dicom_file(inp)]
    /\ UNCHANGED <<loaded_models, insts, th, admin, info, nreq, nadmin, meta>>

\* ------------------------------------------- DICOM utilities: pixel data
\* A pixel array: numpy dtype, shape, and the samples in row-major order.
Dtypes == {"uint8", "uint16", "int16"}

\* sample values of each dtype, the extremes included
Samples(dtype) ==
    CASE dtype = "uint8"  -> {0, 100, 255}
      [] dtype = "uint16" -> {0, 1000, 65535}
      [] dtype = "int16"  -> {-32768, -2000, 31000, 32767}

\* (rows, columns), (rows, columns, channels), and two shapes that are
\* neither
Shapes == {<<1, 2>>, <<2, 1>>, <<2>>, <<1, 1, 1, 2>>}
          \cup {<<1, 1, c>> : c \in 1..5}

RECURSIVE Prod(_)
Prod(s) == IF s = << >> THEN 1 ELSE Head(s) * Prod(Tail(s))

PixelArrays ==
    UNION {[dtype : {d}, shape : {sh}, data : [1..Prod(sh) -> Samples(d)]] :
              d \in Dtypes, sh \in Shapes}

\* BitsAllocated of the dataset a pixel array of this dtype is decoded from
BitsAllocated(arr) == IF arr.dtype = "uint8" THEN 8 ELSE 16

Photometrics == {"MONOCHROME1", "MONOCHROME2", "RGB"}

DicomData == [PhotometricInterpretation : Photometrics,
              pixel_array : PixelArrays]

\* np.min, np.max
MinOf(data) == CHOOSE v \in {data[i] : i \in DOMAIN data} :
                  \A i \in DOMAIN data : v <= data[i]
MaxOf(data) == CHOOSE v \in {data[i] : i \in DOMAIN data} :
                  \A i \in DOMAIN data : data[i] <= v

\* arithmetic in the array's dtype wraps around
Wrap(dtype, x) ==
    CASE dtype = "uint8"  -> x % 256
      [] dtype = "uint16" -> x % 65536
      [] dtype = "int16"  -> ((x + 32768) % 65536) - 32768

\* the integer part of a / b, b # 0, as the cast of a float drops the
\* fraction
Trunc(a, b) ==
    LET aa == IF a < 0 THEN -a ELSE a
        bb == IF b < 0 THEN -b ELSE b
        q == aa \div bb
    IN  IF (a < 0) = (b < 0) THEN q ELSE -q

\* astype(np.uint8) of a float with integer part q: outside 0..255 the C
\* cast is undefined; builds either wrap modulo 256 or saturate
CastU8(q, sat) ==
    IF 0 <= q /\ q <= 255 THEN q
    ELSE IF sat THEN (IF q < 0 THEN 0 ELSE 255)
    ELSE q % 256

\* the sample unscaled
rescale_none(a, d, sat) == CastU8(a, sat)

\* line 259 for one sample: (a / d * 255).astype(np.uint8), a and d the
\* differences already taken in the array's dtype
rescale(a, d, sat) == CastU8(Trunc(a * 255, d), sat)

\* DicomProcessor._normalize_to_8bit
normalize_to_8bit(arr, sat) ==
    LET min_val == MinOf(arr.data)
        max_val == MaxOf(arr.data)
        d == Wrap(arr.dtype, max_val - min_val)
    IN  IF max_val = min_val
        THEN [dtype |-> "uint8", shape |-> arr.shape,
              data |-> [i \in DOMAIN arr.data |-> 0]]
        ELSE [dtype |-> "uint8", shape |-> arr.shape,
              data |-> [i \in DOMAIN arr.data |->
                          rescale(Wrap(arr.dtype, arr.data[i] - min_val),
                                  d, sat)]]

\* the array as it is
invert_none(arr) == arr

\* line 128: np.max(pixel_array) - pixel_array
invert(arr) ==
    [arr EXCEPT !.data = [i \in DOMAIN arr.data |->
                            Wrap(arr.dtype, MaxOf(arr.data) - arr.data[i])]]

\* DicomProcessor.extract_pixel_data
extract_pixel_data(ds, sat) ==
    LET a1 == IF BitsAllocated(ds.pixel_array) > 8
              THEN normalize_to_8bit(ds.pixel_array, sat)
              ELSE ds.pixel_array
    IN  IF ds.PhotometricInterpretation = "MONOCHROME1"
        THEN invert(a1) ELSE a1

\* Image.convert('RGB') of an 'L' pixel
GrayToRGB(v) == <<v, v, v>>

\* the 4 samples kept
drop_alpha_none(px) == px

\* Image.convert('RGB') of an 'RGBA' pixel: the alpha sample is dropped
drop_alpha(px) == <<px[1], px[2], px[3]>>

\* an image: PIL mode, size, and one tuple of samples per pixel
PilImage(h, w, pixels) ==
    [raised |-> FALSE, mode |-> "RGB", height |-> h, width |-> w,
     pixels |-> pixels]

\* DicomProcessor.dicom_to_pil_image: the image by the shape of the array,
\* ValueError for an array that is neither 2-D nor 3-D
dicom_to_pil_image(ds, sat) ==
    LET pixel_array == extract_pixel_data(ds, sat)
        shape == pixel_array.shape
        data == pixel_array.data
    IN  IF Len(shape) = 2
        THEN PilImage(shape[1], shape[2],
                      [p \in 1..(shape[1] * shape[2]) |-> GrayToRGB(data[p])])
        ELSE IF Len(shape) = 3
        THEN LET c == shape[3]
                 px(p) == [k \in 1..c |-> data[(p - 1) * c + k]]
             IN  PilImage(shape[1], shape[2],
                    [p \in 1..(shape[1] * shape[2]) |->
                        IF c = 3 THEN px(p)
                        ELSE IF c = 4 THEN drop_alpha(px(p))
                        ELSE GrayToRGB(px(p)[1])])
        ELSE [raised |-> TRUE, error |-> "ValueError"]

NormalizeTo8bit(arr, sat) ==
    /\ call.op = "none"
    /\ BitsAllocated(arr) > 8
    /\ call' = [op |-> "normalize_to_8bit", arr |-> arr, sat |-> sat,
                out |-> normalize_to_8bit(arr, sat)]
    /\ UNCHANGED <<loaded_models, insts, th, admin, info, nreq, nadmin, meta>>

DicomToPil(ds, sat) ==
    /\ call.op = "none"
    /\ call' = [op |-> "dicom_to_pil_image", ds |-> ds, sat |-> sat,
                out |-> dicom_to_pil_image(ds, sat)]
    /\ UNCHANGED <<loaded_models, insts, th, admin, info, nreq, nadmin, meta>>

NextDicom ==
    \/ \E inp \in DicomInputs : IsDicomFile(inp)
    \/ \E arr \in PixelArrays, sat \in BOOLEAN : NormalizeTo8bit(arr, sat)
    \/ \E ds \in DicomData, sat \in BOOLEAN : DicomToPil(ds, sat)

SpecDicom == Init /\ [][NextDicom]_vars

\* ------------------------------------------------ DICOM utilities: claims
Checked == call.op = "is_dicom_file"

\* the input can be read and bytes 128..131 of it are DICM
CarriesMagic(inp) ==
    /\ inp.kind = "bytes" \/ inp.readable
    /\ inp.buf.len >= MagicOffset + MagicLen
    /\ \A i \in 1..MagicLen : ByteAt(inp.buf, MagicOffset + i - 1) = DICM[i]

\* C21: a byte buffer or a file with the 4 bytes DICM at offset 128 is
\* reported as DICOM, whatever the file is called.
C21_MagicAtOffset128 ==
    Checked /\ CarriesMagic(call.inp) => call.out.result

C21_Witness ==
    /\ Checked
    /\ call.inp.kind = "path"
    /\ call.inp.name = "scan"
    /\ CarriesMagic(call.inp)
    /\ call.out.result

\* C22: when the marker is not found at offset 128 (inputs shorter than 132
\* bytes included) the header-only parse is attempted, and its success is
\* the answer.
C22_FallsBackToHeaderParse ==
    Checked /\ ~CarriesMagic(call.inp)
        => /\ call.out.parse_attempted
           /\ call.out.result = dcmread_ok(call.inp)

Normalized == call.op = "normalize_to_8bit"

IsConstant(arr) == MinOf(arr.data) = MaxOf(arr.data)

\* C23: 8-bit normalization of a high-bit-depth grid: a constant grid gives
\* an all-zero grid of the same shape; otherwise every output value is in
\* 0..255, the source minimum goes to 0 and the source maximum to 255.
C23_NormalizeTo8bit ==
    Normalized =>
        LET arr == call.arr
            out == call.out
        IN  /\ out.shape = arr.shape
            /\ DOMAIN out.data = DOMAIN arr.data
            /\ \A i \in DOMAIN out.data : out.data[i] \in 0..255
            /\ IsConstant(arr) => \A i \in DOMAIN out.data : out.data[i] = 0
            /\ ~IsConstant(arr) =>
                  \A i \in DOMAIN arr.data :
                      /\ arr.data[i] = MinOf(arr.data) => out.data[i] = 0
                      /\ arr.data[i] = MaxOf(arr.data) => out.data[i] = 255

\* a signed grid whose value range does not fit the dtype, normalized
C23_Witness ==
    /\ Normalized
    /\ call.arr.dtype = "int16"
    /\ MaxOf(call.arr.data) - MinOf(call.arr.data) > 32767
    /\ \E i, j \in DOMAIN call.out.data :
          call.out.data[i] = 0 /\ call.out.data[j] = 255

Decoded8 == call.op = "dicom_to_pil_image"

\* a 2-D array of more than 8 bits per sample
HighBitGray(ds) ==
    Len(ds.pixel_array.shape) = 2 /\ BitsAllocated(ds.pixel_array) > 8

\* the first sample of every pixel of a decoded image
Luma(img) == [p \in DOMAIN img.pixels |-> img.pixels[p][1]]

\* C24: a grayscale DICOM of more than 8 bits per sample decodes to a
\* 3-channel image of the source height and width with values in 0..255;
\* under MONOCHROME1 the darkest source pixel is the brightest output pixel
\* and the brightest source pixel the darkest; under any other photometric
\* interpretation the order is kept.
C24_Monochrome1Inverts ==
    Decoded8 /\ HighBitGray(call.ds) =>
        LET src == call.ds.pixel_array
            img == call.out
            out == Luma(img)
        IN  /\ ~img.raised
            /\ img.height = src.shape[1] /\ img.width = src.shape[2]
            /\ DOMAIN img.pixels = DOMAIN src.data
            /\ \A p \in DOMAIN img.pixels :
                  /\ Len(img.pixels[p]) = 3
                  /\ \A k \in 1..3 : img.pixels[p][k] \in 0..255
            /\ \A p \in DOMAIN src.data :
                  IF call.ds.PhotometricInterpretation = "MONOCHROME1"
                  THEN /\ src.data[p] = MinOf(src.data) => out[p] = MaxOf(out)
                       /\ src.data[p] = MaxOf(src.data) => out[p] = MinOf(out)
                  ELSE /\ src.data[p] = MinOf(src.data) => out[p] = MinOf(out)
                       /\ src.data[p] = MaxOf(src.data) => out[p] = MaxOf(out)

C24_Witness ==
    /\ Decoded8
    /\ HighBitGray(call.ds)
    /\ call.ds.PhotometricInterpretation = "MONOCHROME1"
    /\ ~IsConstant(call.ds.pixel_array)
    /\ \E p \in DOMAIN call.ds.pixel_array.data :
          /\ call.ds.pixel_array.data[p] = MinOf(call.ds.pixel_array.data)
          /\ call.out.pixels[p] = <<255, 255, 255>>

\* C25: decode by layout: 2-D is grayscale repeated on 3 channels, 3
\* channels pass through, 4 channels lose the alpha channel, any other
\* channel count keeps only the first channel, and an array that is neither
\* 2-D nor 3-D raises; every image returned has exactly 3 channels.
C25_DecodeLayouts ==
    Decoded8 =>
        LET a == extract_pixel_data(call.ds, call.sat)
            nd == Len(a.shape)
            img == call.out
            c == a.shape[3]
        IN  /\ img.raised <=> nd \notin {2, 3}
            /\ ~img.raised =>
                  /\ img.mode = "RGB"
                  /\ img.height = a.shape[1] /\ img.width = a.shape[2]
                  /\ DOMAIN img.pixels = 1..(a.shape[1] * a.shape[2])
                  /\ \A p \in DOMAIN img.pixels :
                        /\ Len(img.pixels[p]) = 3
                        /\ nd = 2 => img.pixels[p] = <<a.data[p], a.data[p], a.data[p]>>
                        /\ nd = 3 /\ c \in {3, 4} =>
                              \A k \in 1..3 :
                                  img.pixels[p][k] = a.data[(p - 1) * c + k]
                        /\ nd = 3 /\ c \notin {3, 4} =>
                              \A k \in 1..3 :
                                  img.pixels[p][k] = a.data[(p - 1) * c + 1]

\* a 4-channel array decoded to 3 channels
C25_Witness ==
    /\ Decoded8
    /\ Len(call.ds.pixel_array.shape) = 3
    /\ call.ds.pixel_array.shape[3] = 4
    /\ ~call.out.raised
    /\ Len(call.out.pixels[1]) = 3

\* ------------------------------------------------------ inference routes
\* the POST routes that run a model on an uploaded image
Routes == {"amd_oct", "amd_fundus", "glaucoma_fundus", "glaucoma_oct",
           "dr_fundus", "dr_oct", "biomarker"}

\* the method of preprocessor each route calls
RouteRecipe(r) ==
    CASE r = "amd_oct"         -> "preprocess_oct"
      [] r = "amd_fundus"      -> "preprocess_fundus_amd"
      [] r = "glaucoma_fundus" -> "preprocess_keras"
      [] r = "glaucoma_oct"    -> "preprocess_glaucoma_oct"
      [] r = "dr_fundus"       -> "preprocess_fundus"
      [] r = "dr_oct"          -> "preprocess_oct_keras"
      [] r = "biomarker"       -> "preprocess_biomarker"

\* the class the get_*_model method of each route constructs
RouteClass(r) ==
    CASE r = "amd_oct"         -> "AMDOCTModel"
      [] r = "amd_fundus"      -> "AMDFundusModel"
      [] r = "glaucoma_fundus" -> "GlaucomaFundusModel"
      [] r = "glaucoma_oct"    -> "GlaucomaOCTModel"
      [] r = "dr_fundus"       -> "DRFundusModel"
      [] r = "dr_oct"          -> "DROCTModel"
      [] r = "biomarker"       -> "BiomarkerModel"

\* the keys each route takes from the prediction result by subscript
RouteReads(r) ==
    CASE r = "amd_oct"    -> {"prediction", "confidence", "class_probabilities"}
      [] r = "amd_fundus" -> {"prediction", "confidence", "probability"}
      [] r \in {"glaucoma_fundus", "glaucoma_oct"} ->
            {"prediction", "confidence", "classes", "class_probabilities"}
      [] r \in {"dr_fundus", "dr_oct"} ->
            {"prediction", "confidence", "probabilities", "classes"}
      [] r = "biomarker"  ->
            {"biomarker_name", "predicted_value", "unit", "normal_range",
             "confidence"}

\* the preprocess_* methods ImagePreprocessor defines
DefinedRecipes == {"preprocess_oct", "preprocess_fundus_amd",
                   "preprocess_oct_keras", "preprocess_keras",
                   "preprocess_fundus", "preprocess_biomarker"}

\* the adapter classes model_service.py defines
DefinedClasses == {"DROCTModel", "DRFundusModel", "AMDOCTModel",
                   "AMDFundusModel", "GlaucomaFundusModel", "BiomarkerModel"}

\* PIL modes of an uploaded image
ImageModes == {"L", "RGB", "RGBA"}

ModeChannels(mode) ==
    CASE mode = "L" -> 1 [] mode = "RGB" -> 3 [] mode = "RGBA" -> 4

\* the mode of the image the route hands to its recipe
RouteImage(r, mode) ==
    IF r \in {"dr_oct", "glaucoma_oct"} THEN mode ELSE "RGB"

\* channel count and side of the batch a recipe makes of an image; of the
\* two preprocess_oct methods the later one stands
Recipe(recipe, mode) ==
    CASE recipe = "preprocess_oct" ->
            [c |-> 1, hw |-> 256, mean |-> 0]
      [] recipe = "preprocess_fundus_amd" ->
            [c |-> ModeChannels(mode), hw |-> 256, mean |-> 0]
      [] recipe = "preprocess_oct_keras" ->
            [c |-> 3, hw |-> 224, mean |-> 0]
      [] recipe = "preprocess_keras" ->
            [c |-> 3, hw |-> 256, mean |-> 0]
      [] recipe = "preprocess_fundus" ->
            [c |-> ModeChannels(mode), hw |-> 224, mean |-> 0]
      [] recipe = "preprocess_biomarker" ->
            [c |-> ModeChannels(mode), hw |-> 540, mean |-> 0]

\* the side a network is built for, 0 for any: vit_b_16 takes 224 x 224
\* images only, the Keras stand-in declares input_shape (224, 224, 3)
InputSize(cls, model) ==
    CASE cls = "AMDOCTModel" /\ model = "real"          -> 224
      [] cls = "GlaucomaFundusModel" /\ model = "dummy" -> 224
      [] OTHER                                          -> 0

\* does the forward pass of the adapter's network take the batch?
Accepts(a, net, batch) ==
    /\ InputSize(a.cls, a.model) \in {0, batch.hw}
    /\ CASE a.cls = "DROCTModel" -> TRUE
         [] a.cls = "GlaucomaFundusModel" ->
                batch.c = 3 /\ ForwardOK(net, batch.c)
         [] OTHER -> ForwardOK(net, batch.c)

\* what predict returns when the forward pass raises
ForwardError(a) ==
    CASE a.cls = "DROCTModel"          -> Raised("InvalidArgumentError")
      [] a.cls = "DRFundusModel"       -> Default(DRFundus_default)
      [] a.cls = "AMDOCTModel"         -> Default(AMDOCT_default)
      [] a.cls = "AMDFundusModel"      -> Default(AMDFundus_default)
      [] a.cls = "GlaucomaFundusModel" -> Default(Glaucoma_default)
      [] a.cls = "BiomarkerModel"      ->
            Default(get_dummy_prediction(a.biomarker_name))

\* <adapter>.predict(input_tensor) as the route calls it
RoutePredict(a, net, batch, y) ==
    IF InputSize(a.cls, a.model) \notin {0, batch.hw} THEN ForwardError(a)
    ELSE CASE a.cls = "DROCTModel"          -> DROCT_predict(net, batch, y)
           [] a.cls = "DRFundusModel"       -> DRFundus_predict(net, batch, y)
           [] a.cls = "AMDOCTModel"         -> AMDOCT_predict(net, batch, y)
           [] a.cls = "AMDFundusModel"      -> AMDFundus_predict(net, batch, y)
           [] a.cls = "GlaucomaFundusModel" -> Glaucoma_predict(net, batch, y)
           [] a.cls = "BiomarkerModel"      ->
                Biomarker_predict(a.biomarker_name, net, batch, y.v[1])

\* the outputs the adapter's network can give on the batch
RouteOutputs(a, net, batch) ==
    IF a.cls = "BiomarkerModel"
    THEN {[d |-> 1000, v |-> <<raw>>] : raw \in RawOutputs(a, net, batch)}
    ELSE Outputs(net)

Failed(r, stage, error) ==
    [op |-> "route", route |-> r, stage |-> stage, status |-> 500,
     error |-> error]

\* a route from the saved upload to the response, the registry empty: the
\* recipe, get_*_model, predict, the keys read for the log and the
\* response; every exception ends in the 500 of the outer except
HandleRoute(r, name, mode, art, net, y) ==
    LET recipe == RouteRecipe(r)
        cls == RouteClass(r)
    IN  IF recipe \notin DefinedRecipes
        THEN call' = Failed(r, "preprocess", "AttributeError")
        ELSE IF cls \notin DefinedClasses
        THEN call' = Failed(r, "get_model", "NameError")
        ELSE LET batch == Recipe(recipe, RouteImage(r, mode))
                 l == load_model(NewModel(cls, name), art)
                 a == l.adapter
             IN  IF l.raised
                 THEN call' = Failed(r, "get_model", "AttributeError")
                 ELSE /\ net \in (IF a.model = "real"
                                  THEN RealNets(cls) ELSE DummyNets(cls))
                      /\ y \in RouteOutputs(a, net, batch)
                      /\ LET out == RoutePredict(a, net, batch, y)
                             missing == IF out.raised THEN {}
                                        ELSE RouteReads(r) \ DOMAIN out.result
                         IN  call' = [op |-> "route", route |-> r,
                                      stage |-> "predict",
                                      adapter |-> a, net |-> net,
                                      batch |-> batch, out |-> out,
                                      missing |-> missing,
                                      status |-> IF out.raised \/ missing # {}
                                                 THEN 500 ELSE 200]

AllOutputs ==
    UNION {Outputs(net) : net \in AllNets}
    \cup {[d |-> 1000, v |-> <<raw>>] : raw \in AllRaw}

PredictAmdOctRoute(mode, art, net, y) ==
    /\ call.op = "none"
    /\ HandleRoute("amd_oct", "none", mode, art, net, y)
    /\ UNCHANGED <<loaded_models, insts, th, admin, info, nreq, nadmin, meta>>

PredictAmdFundusRoute(mode, art, net, y) ==
    /\ call.op = "none"
    /\ HandleRoute("amd_fundus", "none", mode, art, net, y)
    /\ UNCHANGED <<loaded_models, insts, th, admin, info, nreq, nadmin, meta>>

PredictGlaucomaFundusRoute(mode, art, net, y) ==
    /\ call.op = "none"
    /\ HandleRoute("glaucoma_fundus", "none", mode, art, net, y)
    /\ UNCHANGED <<loaded_models, insts, th, admin, info, nreq, nadmin, meta>>

PredictGlaucomaOctRoute(mode, art, net, y) ==
    /\ call.op = "none"
    /\ HandleRoute("glaucoma_oct", "none", mode, art, net, y)
    /\ UNCHANGED <<loaded_models, insts, th, admin, info, nreq, nadmin, meta>>

PredictDrFundusRoute(mode, art, net, y) ==
    /\ call.op = "none"
    /\ HandleRoute("dr_fundus", "none", mode, art, net, y)
    /\ UNCHANGED <<loaded_models, insts, th, admin, info, nreq, nadmin, meta>>

PredictDrOctRoute(mode, art, net, y) ==
    /\ call.op = "none"
    /\ HandleRoute("dr_oct", "none", mode, art, net, y)
    /\ UNCHANGED <<loaded_models, insts, th, admin, info, nreq, nadmin, meta>>

PredictBiomarkerRoute(name, mode, art, net, y) ==
    /\ call.op = "none"
    /\ HandleRoute("biomarker", name, mode, art, net, y)
    /\ UNCHANGED <<loaded_models, insts, th, admin, info, nreq, nadmin, meta>>

NextRoute ==
    \E mode \in ImageModes, art \in Artifacts, net \in AllNets,
       y \in AllOutputs :
        \/ PredictAmdOctRoute(mode, art, net, y)
        \/ PredictAmdFundusRoute(mode, art, net, y)
        \/ PredictGlaucomaFundusRoute(mode, art, net, y)
        \/ PredictGlaucomaOctRoute(mode, art, net, y)
        \/ PredictDrFundusRoute(mode, art, net, y)
        \/ PredictDrOctRoute(mode, art, net, y)
        \/ \E name \in BiomarkerNames :
              PredictBiomarkerRoute(name, mode, art, net, y)

SpecRoute == Init /\ [][NextRoute]_vars

\* a route has handled a request
Routed == call.op = "route"

\* C26: on every inference route the recipe and the adapter class the route
\* refers to are defined, and every key the route reads is in every result
\* predict returns, so a returned prediction always becomes a 200 response.
C26_RouteKeysAndOperationsDefined ==
    Routed =>
        /\ call.stage = "predict"
        /\ ~call.out.raised => call.missing = {} /\ call.status = 200

\* C27: on every inference route the batch of the route's recipe is one
\* the adapter's network takes, the trained one and the stand-in alike, and
\* predict does not answer with its default for a rejected batch.
C27_RouteBatchAccepted ==
    Routed /\ call.stage = "predict" =>
        /\ Accepts(call.adapter, call.net, call.batch)
        /\ ~call.out.raised

\* the AMD OCT route answers 200 with the default result
C27_Default ==
    /\ Routed
    /\ call.route = "amd_oct"
    /\ call.stage = "predict"
    /\ call.out.path = "default"
    /\ call.status = 200

\* the members of a class-name list
ClassNames(cls) == {Classes(cls)[i] : i \in DOMAIN Classes(cls)}

\* C28: the label of every result a classification adapter returns, the
\* default result included, is one of the adapter's class names.
C28_LabelInClassList ==
    (/\ call.op = "predict"
     /\ call.adapter.cls # "BiomarkerModel"
     /\ ~call.out.raised)
        => call.out.result.prediction \in ClassNames(call.adapter.cls)

\* the AMD OCT adapter has answered with its default result
C28_Default ==
    /\ call.op = "predict"
    /\ call.adapter.cls = "AMDOCTModel"
    /\ call.out.path = "default"
    /\ call.out.result.prediction = "Normal"

\* ------------------------------------------------ audit record: file size
MIN_FILE_SIZE == 1024
MAX_FILE_SIZE == 52428800

\* byte sizes of an upload, around the limits of validate_file
UploadSizes == {0, MIN_FILE_SIZE - 1, MIN_FILE_SIZE, 4096, MAX_FILE_SIZE,
                MAX_FILE_SIZE + 1}

\* the upload's stream as the request hands it over: at its start
NewStream(size) == [size |-> size, pos |-> 0]

\* validate_file: extension and content type, then the size by seek to the
\* end and tell, and the stream is set back to its start
validate_file(stream, allowed) ==
    LET file_size == stream.size
        rewound == [stream EXCEPT !.pos = 0]
    IN  IF ~allowed THEN [valid |-> FALSE, size |-> 0, stream |-> stream]
        ELSE IF file_size > MAX_FILE_SIZE \/ file_size < MIN_FILE_SIZE
        THEN [valid |-> FALSE, size |-> 0, stream |-> rewound]
        ELSE [valid |-> TRUE, size |-> file_size, stream |-> rewound]

\* FileStorage.save: the stream is copied to the file from its position to
\* its end and is left there
save(stream) == [stream EXCEPT !.pos = stream.size]

\* len(file.read()): the bytes from the position to the end
read_len(stream) == stream.size - stream.pos

\* the file_size argument of the route's log call
file_size_arg(r, validation_result, stream) ==
    IF r \in {"dr_fundus", "dr_oct"}
    THEN read_len(stream) ELSE validation_result.size

\* can the route build its response from a prediction result?  The
\* glaucoma fundus route raises KeyError after the log call.
ResponseBuilt(r) == r # "glaucoma_fundus"

\* a request with an upload of the size arrives on the route
AuditBegin(r, size, allowed) ==
    /\ call.op = "none"
    /\ call' = [op |-> "audit", pc |-> "validate", route |-> r,
                stream |-> NewStream(size), allowed |-> allowed,
                validated |-> 0, logged |-> -1, status |-> 0]
    /\ UNCHANGED <<loaded_models, insts, th, admin, info, nreq, nadmin, meta>>

AuditValidate ==
    /\ call.op = "audit" /\ call.pc = "validate"
    /\ LET v == validate_file(call.stream, call.allowed)
       IN  call' = IF v.valid
                   THEN [call EXCEPT !.pc = "save", !.stream = v.stream,
                                     !.validated = v.size]
                   ELSE [call EXCEPT !.pc = "done", !.stream = v.stream,
                                     !.status = 400]
    /\ UNCHANGED <<loaded_models, insts, th, admin, info, nreq, nadmin, meta>>

AuditSave ==
    /\ call.op = "audit" /\ call.pc = "save"
    /\ call' = [call EXCEPT !.pc = "infer", !.stream = save(call.stream)]
    /\ UNCHANGED <<loaded_models, insts, th, admin, info, nreq, nadmin, meta>>

\* decoding, the recipe, get_*_model and predict: they return or raise
AuditInfer(ok) ==
    /\ call.op = "audit" /\ call.pc = "infer"
    /\ ok => RouteRecipe(call.route) \in DefinedRecipes
    /\ call' = IF ok THEN [call EXCEPT !.pc = "log"]
               ELSE [call EXCEPT !.pc = "done", !.status = 500]
    /\ UNCHANGED <<loaded_models, insts, th, admin, info, nreq, nadmin, meta>>

\* log_inference / log_biomarker_prediction, then the response
AuditLog(dbok) ==
    /\ call.op = "audit" /\ call.pc = "log"
    /\ call' = IF dbok
               THEN [call EXCEPT
                        !.pc = "done",
                        !.logged = file_size_arg(call.route,
                                                 [size |-> call.validated],
                                                 call.stream),
                        !.stream = IF call.route \in {"dr_fundus", "dr_oct"}
                                   THEN save(call.stream) ELSE call.stream,
                        !.status = IF ResponseBuilt(call.route)
                                   THEN 200 ELSE 500]
               ELSE [call EXCEPT !.pc = "done", !.status = 500]
    /\ UNCHANGED <<loaded_models, insts, th, admin, info, nreq, nadmin, meta>>

NextAudit ==
    \/ \E r \in Routes, size \in UploadSizes, allowed \in BOOLEAN :
          AuditBegin(r, size, allowed)
    \/ AuditValidate
    \/ AuditSave
    \/ \E ok \in BOOLEAN : AuditInfer(ok)
    \/ \E dbok \in BOOLEAN : AuditLog(dbok)

SpecAudit == Init /\ [][NextAudit]_vars

\* C29: the file size in the audit record of a request answered 200 is the
\* size validation measured.
C29_AuditSizeIsValidatedSize ==
    (call.op = "audit" /\ call.pc = "done" /\ call.status = 200)
        => call.logged = call.validated

\* a DR request answered 200 with size 0 in its audit record
C29_ZeroSize ==
    /\ call.op = "audit" /\ call.pc = "done" /\ call.status = 200
    /\ call.route = "dr_fundus"
    /\ call.validated >= MIN_FILE_SIZE
    /\ call.logged = 0

\* ---------------------------------------------------- POST /biomarkers/batch
MaxBatch == 2      \* names in the 'biomarkers' form field
MaxFail == 2       \* biomarkers of one request whose handling raises

\* list(BiomarkerModel.BIOMARKER_CONFIG.keys())
BIOMARKER_KEYS ==
    <<"Age", "BMI", "BP_OUT_CALC_AVG_DIASTOLIC_BP",
      "BP_OUT_CALC_AVG_SYSTOLIC_BP", "Cholesterol Total", "HDL-Cholesterol",
      "LDL-Cholesterol Calc", "Triglyceride", "Glucose", "HbA1C %", "Insulin",
      "Hematocrit", "Hemoglobin", "Red Blood Cell", "Creatinine",
      "Sex Hormone Binding Globulin", "Estradiol", "Testosterone Total">>

\* names a client can send, one of them not a biomarker
FormNames == {"Age", "HbA1C %", "Cholesterol"}

\* request.form.getlist('biomarkers')
FormLists == UNION {[1..n -> FormNames] : n \in 0..MaxBatch}

\* validate_biomarker_name
validate_biomarker_name(biomarker_name) ==
    [valid |-> biomarker_name \in BiomarkerNames]

\* the biomarkers whose models the registry holds when the request arrives
\* (the registry keys are 'biomarker_' + name)
CachedBefore == {{}, {"Age"}}

\* the loop ended at the biomarker that failed
next_index_break(i, n) == n + 1

\* line 229, continue: the loop goes on with the next biomarker
next_index(i, n) == i + 1

\* what handling one biomarker can do: everything returns, or
\* get_biomarker_model / predict raises, or the log call raises
Outcomes == {"ok", "model_raises", "log_raises"}

Failures(outcomes) ==
    Cardinality({i \in DOMAIN outcomes : outcomes[i] # "ok"})

\* lines 159-169: the list, defaulted to every biomarker when empty, and
\* the validation of every name of it
BatchNames(form, cached) ==
    /\ call.op = "none"
    /\ LET biomarker_names == IF form = << >> THEN BIOMARKER_KEYS ELSE form
           invalid == \E i \in DOMAIN biomarker_names :
                         ~validate_biomarker_name(biomarker_names[i]).valid
       IN  call' = [op |-> "batch",
                    pc |-> IF invalid THEN "done" ELSE "file",
                    status |-> IF invalid THEN 400 ELSE 0,
                    biomarker_names |-> biomarker_names,
                    cached_before |-> cached, cached |-> cached,
                    i |-> 1, outcomes |-> << >>, predictions |-> << >>,
                    processed_biomarkers |-> 0, requested_biomarkers |-> 0]
    /\ UNCHANGED <<loaded_models, insts, th, admin, info, nreq, nadmin, meta>>

\* lines 171-200: the upload is validated, saved, decoded and preprocessed
BatchFile(upload) ==
    /\ call.op = "batch" /\ call.pc = "file"
    /\ call' = CASE upload = "ok"      -> [call EXCEPT !.pc = "loop"]
                 [] upload = "invalid" -> [call EXCEPT !.pc = "done",
                                                       !.status = 400]
                 [] upload = "unreadable" -> [call EXCEPT !.pc = "done",
                                                          !.status = 500]
    /\ UNCHANGED <<loaded_models, insts, th, admin, info, nreq, nadmin, meta>>

\* lines 207-229, one pass of the loop: get_biomarker_model caches the
\* adapter, predict's result is appended (here the one of its results that
\* does not depend on the network), then the log call
BatchOne(outcome) ==
    /\ call.op = "batch" /\ call.pc = "loop"
    /\ call.i <= Len(call.biomarker_names)
    /\ outcome # "ok" => Failures(call.outcomes) < MaxFail
    /\ LET biomarker_name == call.biomarker_names[call.i]
           n == Len(call.biomarker_names)
       IN  call' = [call EXCEPT
                !.cached = IF outcome = "model_raises" THEN @
                           ELSE @ \cup {biomarker_name},
                !.predictions =
                    IF outcome = "model_raises" THEN @
                    ELSE Append(@, get_dummy_prediction(biomarker_name)),
                !.outcomes = Append(@, outcome),
                !.i = IF outcome = "ok" THEN call.i + 1
                      ELSE next_index(call.i, n)]
    /\ UNCHANGED <<loaded_models, insts, th, admin, info, nreq, nadmin, meta>>

\* lines 231-242: the response
BatchRespond ==
    /\ call.op = "batch" /\ call.pc = "loop"
    /\ call.i > Len(call.biomarker_names)
    /\ call' = [call EXCEPT
                !.pc = "done", !.status = 200,
                !.processed_biomarkers = Len(call.predictions),
                !.requested_biomarkers = Len(call.biomarker_names)]
    /\ UNCHANGED <<loaded_models, insts, th, admin, info, nreq, nadmin, meta>>

NextBatch ==
    \/ \E form \in FormLists, cached \in CachedBefore : BatchNames(form, cached)
    \/ \E upload \in {"ok", "invalid", "unreadable"} : BatchFile(upload)
    \/ \E outcome \in Outcomes : BatchOne(outcome)
    \/ BatchRespond

SpecBatch == Init /\ [][NextBatch]_vars

Batched == call.op = "batch"

HasInvalidName(names) ==
    \E i \in DOMAIN names : names[i] \notin BiomarkerNames

\* the names of the biomarkers for which predict returned, in list order
RECURSIVE Returned(_, _)
Returned(names, outcomes) ==
    IF names = << >> \/ outcomes = << >> THEN << >>
    ELSE IF Head(outcomes) = "model_raises"
    THEN Returned(Tail(names), Tail(outcomes))
    ELSE <<Head(names)>> \o Returned(Tail(names), Tail(outcomes))

\* C30: a batch request with an invalid name is answered 400 with no model
\* obtained and the registry cache as it was; in a request answered 200
\* every requested biomarker was handled whatever failed for another, the
\* predictions are those of the biomarkers whose predict returned, in
\* request order, and the processed count is at most the requested count.
C30_BatchValidatesFirstAndIsolatesFailures ==
    Batched =>
        /\ HasInvalidName(call.biomarker_names) =>
              /\ call.status = 400 /\ call.pc = "done"
              /\ call.cached = call.cached_before
              /\ call.predictions = << >>
        /\ [k \in DOMAIN call.predictions |->
                call.predictions[k].biomarker_name]
              = Returned(call.biomarker_names, call.outcomes)
        /\ (call.pc = "done" /\ call.status = 200) =>
              /\ Len(call.outcomes) = Len(call.biomarker_names)
              /\ call.requested_biomarkers = Len(call.biomarker_names)
              /\ call.processed_biomarkers = Len(call.predictions)
              /\ call.processed_biomarkers <= call.requested_biomarkers

\* the first biomarker failed and the second was still predicted
C30_Witness ==
    /\ Batched /\ call.pc = "done" /\ call.status = 200
    /\ Len(call.biomarker_names) = 2
    /\ call.outcomes = <<"model_raises", "ok">>
    /\ Len(call.predictions) = 1
    /\ call.predictions[1].biomarker_name = call.biomarker_names[2]
    /\ call.processed_biomarkers = 1 /\ call.requested_biomarkers = 2

====
